---- MODULE Spec2Model ----
(***************************************************************************)
(* btier: tiered block device.  Model of the metadata engine of            *)
(* kernel/btier/btier_main.c: allocation bitmap (bitlist), block map       *)
(* (blocklist), per-tier header with its single journal slot, the          *)
(* migration transaction (copyblock) and its callers, attach-time          *)
(* recovery and online resize.                                             *)
(*                                                                         *)
(* Every backing store is an array of cells addressed by byte offset.  A   *)
(* cell holds one physical_blockinfo; a bitlist byte b is the cell whose   *)
(* first field is b (little endian: the first byte of the entry is the     *)
(* low byte of .device).  The header (struct devicemagic at offset 0) is   *)
(* kept as a record of its own.  Sizes are scaled down: a block is         *)
(* BLKSIZE cells, a blocklist entry one cell, a bitlist byte one cell.     *)
(***************************************************************************)
EXTENDS Integers, Sequences, FiniteSets, TLC

(* ------------------------------------------------------------------ *)
(* Program constants (btier.h), scaled                                  *)
(* ------------------------------------------------------------------ *)
BLKSIZE ==
    4
PAGE_SIZE ==
    2
TIER_HEADERSIZE ==
    4
EntrySize ==
    1
TIER_DEVICE_PLAYGROUND ==
    4
ALLOCATED ==
    255
UNALLOCATED ==
    0
ENOSPC ==
    28
EEXIST ==
    17
EIO ==
    5
TIERMAXAGE ==
    2
TIERHITCOLLECTTIME ==
    1
MIGRATE_INTERVAL ==
    1
MAX_STAT_COUNT ==
    5
MAX_STAT_DECAY ==
    2
EAGAIN ==
    11
\* values of dev->wqlock and dev->migrate
NORMAL_IO ==
    1
MIGRATION_IO ==
    2
\* width of the unsigned heat totals (u64 in the code), scaled
U64 ==
    65536

\* dev->logical_block_size as set by TIER_SET_SECTORSIZE
LogicalBlockSize ==
    2

CLEAN == "CLEAN"
DIRTY == "DIRTY"
WD == "WD"
WC == "WC"
WA == "WA"

(* ------------------------------------------------------------------ *)
(* Bounds of the model                                                  *)
(* ------------------------------------------------------------------ *)
NumTiers ==
    2
MaxCap ==
    52

WorkBlocks ==
    2
MaxCrashes ==
    1

MaxGrow ==
    1

MaxFaults ==
    1

\* the workload's hit counts, and the seconds the clock advances
MaxHits ==
    5
MaxNow ==
    3

\* foreground requests in flight at a time, and direct migration requests made
MaxAio ==
    1
MaxRequests ==
    2

Tiers == 0 .. (NumTiers - 1)
Cells == 0 .. (MaxCap - 1)

(* ------------------------------------------------------------------ *)
(* Values                                                               *)
(* ------------------------------------------------------------------ *)
Entry(dv, off, lu, rc, wc) ==
    [device |-> dv, offset |-> off, lastused |-> lu, readcount |-> rc, writecount |-> wc]

ZeroEntry ==
    Entry(0, 0, 0, 0, 0)

\* a single byte written through tier_file_write, seen as a cell
ByteCell(b) ==
    Entry(b, 0, 0, 0, 0)

\* the byte read back from a cell (first byte of the entry)
ByteOf(c) ==
    c.device

\* same_blockinfo
same_blockinfo(p, b) ==
    /\ p.device = b.device
    /\ p.offset = b.offset
    /\ p.lastused = b.lastused
    /\ p.readcount = b.readcount
    /\ p.writecount = b.writecount

btier_div(a, b) ==
    IF b = 0 THEN 0 ELSE a \div b

PageRound(n) ==
    ((n + PAGE_SIZE - 1) \div PAGE_SIZE) * PAGE_SIZE

\* F applied to the value of e, which is computed once
Then(e, F(_)) ==
    CHOOSE y \in {F(x) : x \in {e}} : TRUE

\* memory byte array, 0-based index i of a sequence
At(s, i) ==
    IF i >= 0 /\ i + 1 <= Len(s) THEN s[i + 1] ELSE UNALLOCATED

SetAt(s, i, v) ==
    IF i >= 0 /\ i + 1 <= Len(s) THEN [s EXCEPT ![i + 1] = v] ELSE s

(* ------------------------------------------------------------------ *)
(* The world an operation runs in: W = [disk, mem, now]                 *)
(*   disk.hdr[s]   struct devicemagic persisted at offset 0 of store s  *)
(*   disk.cell[s]  the bytes of store s beyond the header struct        *)
(*   disk.cap[s]   physical capacity of store s (tier_get_size)         *)
(*   disk.failing[s]  store s answers every read/write/sync with EIO    *)
(*   mem           struct tier_device and its backing_device array      *)
(* ------------------------------------------------------------------ *)
ZeroPolicy ==
    [max_age |-> 0, hit_collecttime |-> 0, migration_interval |-> 0,
     migration_disabled |-> 0, sequential_landing |-> 0]

\* struct devicemagic, zeroed
ZeroMagic ==
    [device |-> 0, clean |-> CLEAN, blocknr_journal |-> 0,
     binfo_journal_new |-> ZeroEntry, binfo_journal_old |-> ZeroEntry,
     average_reads |-> 0, average_writes |-> 0, total_reads |-> 0, total_writes |-> 0,
     devicesize |-> 0, total_device_size |-> 0, bitlistsize |-> 0, blocklistsize |-> 0,
     startofbitlist |-> 0, startofblocklist |-> 0, dtapolicy |-> ZeroPolicy]

\* struct backing_device after kzalloc (TIER_SET_FD)
ZeroBackdev ==
    [fds |-> 0, devmagic |-> ZeroMagic, bitlist |-> << >>, free_offset |-> 0,
     startofdata |-> 0, endofdata |-> 0, startofbitlist |-> 0, bitlistsize |-> 0,
     devicesize |-> 0, startofblocklist |-> 0]

\* struct tier_device after kzalloc (TIER_INIT)
ZeroDev ==
    [attached_devices |-> 0, backdev |-> [t \in Tiers |-> ZeroBackdev],
     blocklist |-> << >>, size |-> 0, blocklistsize |-> 0, inerror |-> 0, oops |-> 0]

Store(W, device) ==
    W.mem.backdev[device].fds

IoOk(W, device, pos) ==
    /\ ~W.disk.failing[Store(W, device)]
    /\ pos >= 0
    /\ pos < W.disk.cap[Store(W, device)]

\* tier_file_write of one cell: the store's content afterwards
tier_file_write(W, device, c, pos) ==
    IF IoOk(W, device, pos)
    THEN [W EXCEPT !.disk.cell[Store(W, device)][pos] = c]
    ELSE W

\* tier_file_write: its return value
tier_file_write_ret(W, device, pos) ==
    IF IoOk(W, device, pos) THEN 0 ELSE 0 - EIO

\* tier_file_read of one cell (a failed or short read leaves the zeroed buffer)
tier_file_read(W, device, pos) ==
    IF IoOk(W, device, pos) THEN W.disk.cell[Store(W, device)][pos] ELSE ZeroEntry

tiererror(W) ==
    [W EXCEPT !.mem.inerror = 1]

\* read_device_magic: the header struct as read from offset 0
read_device_magic(W, device) ==
    IF W.disk.failing[Store(W, device)]
    THEN W
    ELSE [W EXCEPT !.mem.backdev[device].devmagic = W.disk.hdr[Store(W, device)]]

\* write_device_magic: copy of devmagic written and synced at offset 0; errors are
\* only logged
write_device_magic(W, device) ==
    IF W.disk.failing[Store(W, device)]
    THEN W
    ELSE [W EXCEPT !.disk.hdr[Store(W, device)] = W.mem.backdev[device].devmagic]

\* mark_offset_as_used(dev, device, offset): offset is relative to startofdata
mark_offset_as_used(W, device, offset) ==
    LET backdev == W.mem.backdev[device]
        boffset == offset \div BLKSIZE
        bloffset == backdev.startofbitlist + boffset
        W1 == tier_file_write(W, device, ByteCell(ALLOCATED), bloffset)
    IN  [W1 EXCEPT !.mem.backdev[device].bitlist = SetAt(@, boffset, ALLOCATED)]

mark_offset_as_used_ret(W, device, offset) ==
    tier_file_write_ret(W, device, W.mem.backdev[device].startofbitlist + (offset \div BLKSIZE))

\* a clear_dev_list that leaves free_offset where it is
clear_dev_list_keep(W, binfo) ==
    LET device == binfo.device - 1
        backdev == W.mem.backdev[device]
        boffset == (binfo.offset - backdev.startofdata) \div BLKSIZE
        W1 == tier_file_write(W, device, ByteCell(UNALLOCATED), backdev.startofbitlist + boffset)
    IN  [W1 EXCEPT !.mem.backdev[device].bitlist = SetAt(@, boffset, UNALLOCATED)]

\* clear_dev_list(dev, binfo)
clear_dev_list(W, binfo) ==
    LET device == binfo.device - 1
        backdev == W.mem.backdev[device]
        offset == binfo.offset - backdev.startofdata
        boffset == offset \div BLKSIZE
        bloffset == backdev.startofbitlist + boffset
        W1 == tier_file_write(W, device, ByteCell(UNALLOCATED), bloffset)
        fo == IF backdev.free_offset > boffset THEN boffset ELSE backdev.free_offset
    IN  [W1 EXCEPT !.mem.backdev[device].free_offset = fo,
                   !.mem.backdev[device].bitlist = SetAt(@, boffset, UNALLOCATED)]

(* allocate_dev: the scan.  Pages of PAGE_SIZE bitlist bytes are scanned from *)
(* the page holding free_offset; the first byte that is not ALLOCATED is the  *)
(* candidate (-1: the scan ran off the bitlist).                              *)
RECURSIVE allocate_scan(_, _)
allocate_scan(backdev, idx) ==
    IF ((idx \div PAGE_SIZE) * PAGE_SIZE) >= backdev.bitlistsize
    THEN 0 - 1
    ELSE IF At(backdev.bitlist, idx) # ALLOCATED
         THEN idx
         ELSE allocate_scan(backdev, idx + 1)

\* allocate_dev(dev, blocknr, binfo, device): [w, binfo, ret].  A candidate whose
\* block would end beyond endofdata ends the scan with binfo->device still 0.
allocate_dev(W, binfo, device) ==
    LET backdev == W.mem.backdev[device]
        cur == backdev.free_offset \div PAGE_SIZE
        idx == IF binfo.device = 0 THEN allocate_scan(backdev, cur * PAGE_SIZE) ELSE 0 - 1
        relative_offset == idx * BLKSIZE
        offset == relative_offset + backdev.startofdata
        W1 == [W EXCEPT !.mem.backdev[device].free_offset = idx,
                        !.mem.backdev[device].bitlist = SetAt(@, idx, ALLOCATED)]
    IN  IF idx < 0
        THEN [w |-> W, binfo |-> binfo, ret |-> 0]
        ELSE IF offset + BLKSIZE > backdev.endofdata
        THEN [w |-> W, binfo |-> [binfo EXCEPT !.offset = offset], ret |-> 0]
        ELSE [w |-> mark_offset_as_used(W1, device, relative_offset),
              binfo |-> [binfo EXCEPT !.offset = offset, !.device = device + 1],
              ret |-> mark_offset_as_used_ret(W1, device, relative_offset)]

(* ------------------------------------------------------------------ *)
(* Blocklist                                                            *)
(* ------------------------------------------------------------------ *)
\* get_blockinfo(dev, blocknr, 0): the cached entry
get_blockinfo(W, blocknr) ==
    W.mem.blocklist[blocknr + 1]

SetCache(W, blocknr, binfo) ==
    IF blocknr + 1 <= Len(W.mem.blocklist)
    THEN [W EXCEPT !.mem.blocklist[blocknr + 1] = binfo]
    ELSE W

BlocklistPos(W, blocknr) ==
    W.mem.backdev[0].startofblocklist + (blocknr * EntrySize)

\* a write_blocklist that copies binfo into the cache under every policy
write_blocklist_cached(W, blocknr, binfo, write_policy, iscache) ==
    LET b1 == [binfo EXCEPT !.lastused = W.now]
        W1 == SetCache(W, blocknr, b1)
        pos == BlocklistPos(W, blocknr)
    IN  IF write_policy = WC
        THEN [w |-> W1, binfo |-> b1, ret |-> 0]
        ELSE [w |-> tier_file_write(W1, 0, b1, pos), binfo |-> b1,
              ret |-> tier_file_write_ret(W1, 0, pos)]

(* write_blocklist(dev, blocknr, binfo, write_policy): [w, binfo, ret].       *)
(* binfo->lastused is stamped in the caller's struct under every policy;      *)
(* iscache says that binfo is the cached entry itself.                        *)
write_blocklist(W, blocknr, binfo, write_policy, iscache) ==
    LET b1 == [binfo EXCEPT !.lastused = W.now]
        W1 == IF write_policy # WD \/ iscache THEN SetCache(W, blocknr, b1) ELSE W
        pos == BlocklistPos(W, blocknr)
    IN  IF write_policy = WC
        THEN [w |-> W1, binfo |-> b1, ret |-> 0]
        ELSE [w |-> tier_file_write(W1, 0, b1, pos), binfo |-> b1,
              ret |-> tier_file_write_ret(W1, 0, pos)]

\* an update_blocklist that writes the entry without comparing it first
update_blocklist_always(W, blocknr) ==
    LET binfo == get_blockinfo(W, blocknr)
        pos == BlocklistPos(W, blocknr)
        W1 == IF IoOk(W, 0, pos) THEN W ELSE tiererror(W)
    IN  IF W.mem.inerror # 0
        THEN W
        ELSE write_blocklist(W1, blocknr, binfo, WD, TRUE).w

\* update_blocklist(dev, blocknr, binfo), binfo being the cached entry
update_blocklist(W, blocknr) ==
    LET binfo == get_blockinfo(W, blocknr)
        pos == BlocklistPos(W, blocknr)
        phy == tier_file_read(W, 0, pos)
        W1 == IF IoOk(W, 0, pos) THEN W ELSE tiererror(W)
    IN  IF W.mem.inerror # 0
        THEN W
        ELSE IF ~same_blockinfo(phy, binfo)
             THEN write_blocklist(W1, blocknr, binfo, WD, TRUE).w
             ELSE W1

(* ------------------------------------------------------------------ *)
(* Journal                                                              *)
(* ------------------------------------------------------------------ *)
write_blocklist_journal(W, blocknr, newdevice, olddevice) ==
    LET device == olddevice.device - 1
        W1 == [W EXCEPT !.mem.backdev[device].devmagic.binfo_journal_old = olddevice,
                        !.mem.backdev[device].devmagic.binfo_journal_new = newdevice,
                        !.mem.backdev[device].devmagic.blocknr_journal = blocknr]
    IN  write_device_magic(W1, device)

clean_blocklist_journal(W, device) ==
    LET W1 == [W EXCEPT !.mem.backdev[device].devmagic.binfo_journal_old = ZeroEntry,
                        !.mem.backdev[device].devmagic.binfo_journal_new = ZeroEntry,
                        !.mem.backdev[device].devmagic.clean = CLEAN,
                        !.mem.backdev[device].devmagic.blocknr_journal = 0]
    IN  write_device_magic(W1, device)

recover_journal(W, device) ==
    LET devmagic == W.mem.backdev[device].devmagic
        blocknr == devmagic.blocknr_journal
        W1 == write_blocklist(W, blocknr, devmagic.binfo_journal_old, WD, FALSE).w
        W2 == IF devmagic.binfo_journal_new.device # 0
              THEN clear_dev_list(W1, devmagic.binfo_journal_new)
              ELSE W1
    IN  IF devmagic.binfo_journal_old.device = 0
        THEN W
        ELSE clean_blocklist_journal(W2, device)

(* ------------------------------------------------------------------ *)
(* Migration transaction.  S = [w, cur, newIsCache, oldIsCache,         *)
(* newbuf, oldbuf, devicenr, res]: copyblock(dev, newdevice, olddevice, *)
(* curblock) with its two struct pointers; a pointer is either the      *)
(* cached entry of curblock or a struct on the caller's stack.          *)
(* ------------------------------------------------------------------ *)
NewDev(S) ==
    IF S.newIsCache THEN get_blockinfo(S.w, S.cur) ELSE S.newbuf

OldDev(S) ==
    IF S.oldIsCache THEN get_blockinfo(S.w, S.cur) ELSE S.oldbuf

SetNewDev(S, e) ==
    IF S.newIsCache THEN [S EXCEPT !.w = SetCache(S.w, S.cur, e)] ELSE [S EXCEPT !.newbuf = e]

SetOldDev(S, e) ==
    IF S.oldIsCache THEN [S EXCEPT !.w = SetCache(S.w, S.cur, e)] ELSE [S EXCEPT !.oldbuf = e]

\* reset_counters_on_migration(dev, binfo)
reset_counters_on_migration(W, binfo) ==
    LET device == binfo.device - 1
        backdev == W.mem.backdev[device]
        devblocks == backdev.devicesize \div BLKSIZE
        tr == (backdev.devmagic.total_reads - binfo.readcount) % U64
        tw == (backdev.devmagic.total_writes - binfo.writecount) % U64
    IN  [W EXCEPT !.mem.backdev[device].devmagic.total_reads = tr,
                  !.mem.backdev[device].devmagic.total_writes = tw,
                  !.mem.backdev[device].devmagic.average_writes = btier_div(tw, devblocks),
                  !.mem.backdev[device].devmagic.average_reads = btier_div(tr, devblocks)]

\* tier_moving_block(dev, olddevice, newdevice): the data copy; it fails when either
\* store fails
tier_moving_block_ret(W, olddevice, newdevice) ==
    IF \/ W.disk.failing[Store(W, olddevice.device - 1)]
       \/ W.disk.failing[Store(W, newdevice.device - 1)]
    THEN 0 - EIO
    ELSE 0

\* a copyblock that leaves the counters of the entry as they are
cb_reserve_keep(S) ==
    LET n0 == NewDev(S)
        devicenr == n0.device - 1
        S2 == SetNewDev(S, [n0 EXCEPT !.device = 0])
        a == allocate_dev(S2.w, NewDev(S2), devicenr)
        S3 == SetNewDev([S2 EXCEPT !.w = a.w], a.binfo)
    IN  IF n0.device = OldDev(S).device
        THEN [S EXCEPT !.res = 0 - EEXIST]
        ELSE IF NewDev(S3).device = 0
             THEN [S3 EXCEPT !.res = 0 - ENOSPC]
             ELSE [S3 EXCEPT !.res = 0]

\* copyblock, lines 738-761: counters reset, same-tier check, slot reservation
cb_reserve(S) ==
    LET n0 == NewDev(S)
        devicenr == n0.device - 1
        S1 == SetNewDev(S, [n0 EXCEPT !.readcount = 0, !.writecount = 0,
                                      !.lastused = S.w.now])
        S2 == SetNewDev(S1, [NewDev(S1) EXCEPT !.device = 0])
        a == allocate_dev(S2.w, NewDev(S2), devicenr)
        S3 == SetNewDev([S2 EXCEPT !.w = a.w], a.binfo)
    IN  IF NewDev(S1).device = OldDev(S1).device
        THEN [S1 EXCEPT !.res = 0 - EEXIST]
        ELSE IF NewDev(S3).device = 0
             THEN [S3 EXCEPT !.res = 0 - ENOSPC]
             ELSE [S3 EXCEPT !.res = 0]

\* copyblock, lines 763-768: the data copy
cb_move(S) ==
    [S EXCEPT !.res = tier_moving_block_ret(S.w, OldDev(S), NewDev(S))]

\* copyblock, line 770
cb_journal(S) ==
    [S EXCEPT !.w = write_blocklist_journal(S.w, S.cur, NewDev(S), OldDev(S))]

\* copyblock, line 771: the result of write_blocklist is not looked at
cb_commit(S) ==
    LET r == write_blocklist(S.w, S.cur, NewDev(S), WA, S.newIsCache)
    IN  IF S.newIsCache
        THEN [S EXCEPT !.w = r.w]
        ELSE [S EXCEPT !.w = r.w, !.newbuf = r.binfo]

\* copyblock, lines 772-780: sync of the target, journal clear, return 0
cb_clean(S) ==
    [S EXCEPT !.w = clean_blocklist_journal(S.w, OldDev(S).device - 1), !.res = 0]

\* copyblock as one call
\* copyblock from the journal write on (lines 770-780)
cb_switch(S) ==
    Then(cb_journal(S),
         LAMBDA S3 : Then(cb_commit(S3), LAMBDA S4 : cb_clean(S4)))

copyblock(S) ==
    Then(cb_reserve(S),
         LAMBDA S1 :
             IF S1.res # 0
             THEN S1
             ELSE Then(cb_move(S1), LAMBDA S2 : IF S2.res # 0 THEN S2 ELSE cb_switch(S2)))

\* the caller's part after copyblock without the memcpy that restores the old settings
after_copyblock_keep(S) ==
    IF S.res = 0
    THEN [S EXCEPT !.w = clear_dev_list(reset_counters_on_migration(S.w, S.oldbuf), S.oldbuf)]
    ELSE S

\* the caller's part after copyblock in migrate_up_ifneeded, migrate_down_ifneeded and
\* do_migrate_direct: binfo is the cached entry, orgbinfo a copy on the stack
after_copyblock(S) ==
    IF S.res = 0
    THEN [S EXCEPT !.w = clear_dev_list(reset_counters_on_migration(S.w, S.oldbuf), S.oldbuf)]
    ELSE SetNewDev(S, S.oldbuf)

(* ------------------------------------------------------------------ *)
(* Heat decision and the walker                                         *)
(* ------------------------------------------------------------------ *)
\* a migration of the cached entry of curblock to tier device newdevice, orgbinfo being
\* the copy of the entry on the caller's stack
MoveTxn(W, curblock, orgbinfo, newdevice) ==
    [w |-> SetCache(W, curblock, [orgbinfo EXCEPT !.device = newdevice]),
     cur |-> curblock, newIsCache |-> TRUE, oldIsCache |-> FALSE,
     newbuf |-> ZeroEntry, oldbuf |-> orgbinfo, res |-> 0]

\* copyblock and the caller's follow-up (lines 829-839, 888-898): [w, res]
move_and_follow(W, curblock, orgbinfo, newdevice) ==
    Then(copyblock(MoveTxn(W, curblock, orgbinfo, newdevice)),
         LAMBDA S : [w |-> after_copyblock(S).w, res |-> S.res])

hitcount_of(binfo) ==
    (binfo.readcount + binfo.writecount) % U64

avghitcount_of(W, device) ==
    (W.mem.backdev[device].devmagic.average_reads
        + W.mem.backdev[device].devmagic.average_writes) % U64

\* the test of lines 807-808 with >= for >
exceeds_average_or_equal(hitcount, avghitcount, attached_devices) ==
    hitcount >= (avghitcount + btier_div(avghitcount, attached_devices)) % U64

\* migrate_up_ifneeded, lines 807-808: the test against the block's own tier
exceeds_average(hitcount, avghitcount, attached_devices) ==
    hitcount > (avghitcount + btier_div(avghitcount, attached_devices)) % U64

\* the test of lines 823-825 with the hysteresis added to the faster tier's average
exceeds_nexttier_plus(hitcount, avghitcountnexttier, attached_devices) ==
    hitcount > (avghitcountnexttier + btier_div(avghitcountnexttier, attached_devices)) % U64

\* migrate_up_ifneeded, lines 810-825: the test against the next faster tier
exceeds_nexttier(hitcount, avghitcountnexttier, attached_devices) ==
    hitcount > (avghitcountnexttier - btier_div(avghitcountnexttier, attached_devices)) % U64

\* migrate_up_ifneeded, lines 802-828: binfo->device after the decision
promote_device(W, binfo) ==
    IF /\ exceeds_average(hitcount_of(binfo), avghitcount_of(W, binfo.device - 1),
                          W.mem.attached_devices)
       /\ exceeds_nexttier(hitcount_of(binfo), avghitcount_of(W, binfo.device - 2),
                           W.mem.attached_devices)
    THEN binfo.device - 1
    ELSE binfo.device

\* migrate_up_ifneeded(dev, binfo, curblock), binfo being the cached entry: [w, res]
migrate_up_ifneeded(W, curblock) ==
    LET binfo == get_blockinfo(W, curblock)
    IN  IF binfo.device <= 1
        THEN [w |-> W, res |-> 0]
        ELSE IF promote_device(W, binfo) = binfo.device
        THEN [w |-> W, res |-> 0]
        ELSE move_and_follow(W, curblock, binfo, promote_device(W, binfo))

\* migrate_down_ifneeded, lines 864-880: binfo->device after the decision
demote_device(W, binfo) ==
    LET dmagic == W.mem.backdev[binfo.device - 1].devmagic
        avghitcount == avghitcount_of(W, binfo.device - 1)
        hysteresis == btier_div(avghitcount, W.mem.attached_devices)
        age == W.now - binfo.lastused
    IN  IF age > dmagic.dtapolicy.max_age
        THEN binfo.device + 1
        ELSE IF /\ hitcount_of(binfo) < (avghitcount - hysteresis) % U64
                /\ age > dmagic.dtapolicy.hit_collecttime
                /\ binfo.device + 1 < W.mem.attached_devices
        THEN binfo.device + 1
        ELSE binfo.device

\* migrate_down_ifneeded(dev, binfo, curblock), binfo being the cached entry: [w, res]
migrate_down_ifneeded(W, curblock) ==
    LET binfo == get_blockinfo(W, curblock)
    IN  IF binfo.device = 0
        THEN [w |-> W, res |-> 0]
        ELSE IF demote_device(W, binfo) > W.mem.attached_devices
        THEN [w |-> W, res |-> 0]
        ELSE IF demote_device(W, binfo) = binfo.device
        THEN [w |-> W, res |-> 0]
        ELSE move_and_follow(W, curblock, binfo, demote_device(W, binfo))

\* walk_blocklist, lines 1048-1055: the averages of the tier the block is on
walk_averages(W, device) ==
    LET backdev == W.mem.backdev[device]
        devblocks == backdev.devicesize \div BLKSIZE
    IN  [W EXCEPT !.mem.backdev[device].devmagic.average_reads =
                      btier_div(backdev.devmagic.total_reads, devblocks),
                  !.mem.backdev[device].devmagic.average_writes =
                      btier_div(backdev.devmagic.total_writes, devblocks)]

\* the decay of the counters that have passed the ceiling, not of those that sit on it
walk_decay_above(W, curblock, device) ==
    LET binfo == get_blockinfo(W, curblock)
        rd == binfo.readcount > MAX_STAT_COUNT
        wr == binfo.writecount > MAX_STAT_COUNT
        dm == W.mem.backdev[device].devmagic
        b1 == [binfo EXCEPT !.readcount = IF rd THEN @ - MAX_STAT_DECAY ELSE @,
                            !.writecount = IF wr THEN @ - MAX_STAT_DECAY ELSE @]
        W1 == SetCache(W, curblock, b1)
    IN  [W1 EXCEPT !.mem.backdev[device].devmagic.total_reads =
                       IF rd THEN (dm.total_reads - MAX_STAT_DECAY) % U64 ELSE @,
                   !.mem.backdev[device].devmagic.total_writes =
                       IF wr THEN (dm.total_writes - MAX_STAT_DECAY) % U64 ELSE @]

\* walk_blocklist, lines 1060-1073: the decay of saturated counters; device is the tier
\* the block was on when the walker picked it up
walk_decay(W, curblock, device) ==
    LET binfo == get_blockinfo(W, curblock)
        rd == binfo.readcount >= MAX_STAT_COUNT
        wr == binfo.writecount >= MAX_STAT_COUNT
        dm == W.mem.backdev[device].devmagic
        b1 == [binfo EXCEPT !.readcount = IF rd THEN @ - MAX_STAT_DECAY ELSE @,
                            !.writecount = IF wr THEN @ - MAX_STAT_DECAY ELSE @]
        W1 == SetCache(W, curblock, b1)
    IN  [W1 EXCEPT !.mem.backdev[device].devmagic.total_reads =
                       IF rd THEN (dm.total_reads - MAX_STAT_DECAY) % U64 ELSE @,
                   !.mem.backdev[device].devmagic.total_writes =
                       IF wr THEN (dm.total_writes - MAX_STAT_DECAY) % U64 ELSE @]

\* walk_blocklist up to the call of migrate_up_ifneeded (lines 1041-1056): [w, res]
walk_down(W, curblock) ==
    migrate_down_ifneeded(walk_averages(W, get_blockinfo(W, curblock).device - 1), curblock)

\* walk_blocklist from migrate_up_ifneeded on (lines 1057-1075), d being walk_down's result
walk_up(W, d, curblock) ==
    IF d.res # 0
    THEN d.w
    ELSE Then(migrate_up_ifneeded(d.w, curblock),
              LAMBDA u :
                  Then(walk_decay(u.w, curblock, get_blockinfo(W, curblock).device - 1),
                       LAMBDA V : update_blocklist(V, curblock)))

\* walk_blocklist: the body of the loop for one block
walk_block(W, curblock) ==
    IF get_blockinfo(W, curblock).device = 0
    THEN W
    ELSE Then(walk_down(W, curblock), LAMBDA d : walk_up(W, d, curblock))

(* ------------------------------------------------------------------ *)
(* Attach (TIER_REGISTER) and teardown                                  *)
(* ------------------------------------------------------------------ *)
\* wipe_bitlist(dev, device, startofbitlist, bitlistsize): zeroes written, not synced
wipe_bitlist(W, device, startofbitlist, bitlistsize) ==
    IF W.disk.failing[Store(W, device)]
    THEN W
    ELSE [W EXCEPT !.disk.cell[Store(W, device)] =
             [p \in Cells |->
                 IF p >= startofbitlist /\ p < startofbitlist + bitlistsize
                    /\ p < W.disk.cap[Store(W, device)]
                 THEN ZeroEntry
                 ELSE @[p]]]

RECURSIVE repair_wipe(_, _)
repair_wipe(W, i) ==
    IF i >= W.mem.attached_devices
    THEN W
    ELSE Then([wipe_bitlist(W, i, W.mem.backdev[i].startofbitlist,
                            W.mem.backdev[i].bitlistsize)
                  EXCEPT !.mem.backdev[i].free_offset = 0],
              LAMBDA V : repair_wipe(V, i + 1))

(* repair_bitlists, the loop over the blocks (lines 1404-1432).  The store   *)
(* to dev->backdev[i]->free_offset is made with i == attached_devices, the    *)
(* value the wipe loop left: backdev[attached_devices] is a NULL pointer, so  *)
(* the first valid entry ends the thread in a kernel oops.                    *)
RECURSIVE repair_mark(_, _)
repair_mark(W, blocknr) ==
    IF blocknr >= (W.mem.size \div BLKSIZE) \/ W.mem.inerror # 0 \/ W.mem.oops # 0
    THEN W
    ELSE IF blocknr >= Len(W.mem.blocklist)
    THEN [W EXCEPT !.mem.oops = 1]
    ELSE LET binfo == get_blockinfo(W, blocknr)
         IN  IF binfo.device = 0
             THEN repair_mark(W, blocknr + 1)
             ELSE IF binfo.device > W.mem.attached_devices
             THEN repair_mark(SetCache(W, blocknr, ZeroEntry), blocknr + 1)
             ELSE IF BLKSIZE + binfo.offset > W.mem.backdev[binfo.device - 1].devicesize
             THEN repair_mark(SetCache(W, blocknr, ZeroEntry), blocknr + 1)
             ELSE [mark_offset_as_used(W, binfo.device - 1,
                       binfo.offset - W.mem.backdev[binfo.device - 1].startofdata)
                      EXCEPT !.mem.oops = 1]

repair_bitlists(W) ==
    Then(repair_wipe(W, 0), LAMBDA V : repair_mark(V, 0))

RECURSIVE od_load(_, _)
od_load(W, i) ==
    IF i >= W.mem.attached_devices
    THEN W
    ELSE Then(read_device_magic(W, i), LAMBDA V : od_load(V, i + 1))

\* order_devices, "Check and swap" (lines 1476-1488)
RECURSIVE od_swap(_, _)
od_swap(W, i) ==
    IF i >= W.mem.attached_devices
    THEN W
    ELSE LET backdev == W.mem.backdev[i]
             newnr == backdev.devmagic.device
             olddev == W.mem.backdev[newnr]
         IN  IF i # newnr
             THEN Then([W EXCEPT !.mem.backdev[newnr] = backdev,
                                 !.mem.backdev[i] = olddev],
                       LAMBDA V : od_swap(V, i + 1))
             ELSE od_swap(W, i + 1)

\* tier_check(dev, devicenr)
tier_check(W, devicenr) ==
    recover_journal(W, devicenr)

\* order_devices, "Mark as inuse" (lines 1493-1510): R = [w, clean]
RECURSIVE od_mark(_, _)
od_mark(R, i) ==
    IF i >= R.w.mem.attached_devices
    THEN R
    ELSE LET notclean == R.w.mem.backdev[i].devmagic.clean # CLEAN
         IN  Then(IF notclean THEN tier_check(R.w, i) ELSE R.w,
                  LAMBDA W1 :
                      Then(write_device_magic(
                               [W1 EXCEPT !.mem.backdev[i].devmagic.clean = DIRTY], i),
                           LAMBDA W2 :
                               od_mark([w |-> [W2 EXCEPT !.mem.backdev[i].devmagic.dtapolicy =
                                                  [@ EXCEPT
                                                      !.max_age =
                                                          IF @ = 0 THEN TIERMAXAGE ELSE @,
                                                      !.hit_collecttime =
                                                          IF @ = 0 THEN TIERHITCOLLECTTIME
                                                          ELSE @]],
                                        clean |-> IF notclean THEN 0 ELSE R.clean],
                                       i + 1)))

\* order_devices, after the loops (lines 1512-1520)
od_finish(R) ==
    Then([R.w EXCEPT !.mem.backdev[0].devmagic.dtapolicy =
             [@ EXCEPT !.sequential_landing = IF @ >= R.w.mem.attached_devices THEN 0 ELSE @,
                       !.migration_interval = IF @ = 0 THEN MIGRATE_INTERVAL ELSE @]],
         LAMBDA W1 : IF R.clean = 0 THEN repair_bitlists(W1) ELSE W1)

order_devices(W) ==
    Then(od_load(W, 0),
         LAMBDA W1 :
             Then(od_swap(W1, 0),
                  LAMBDA W2 :
                      Then(od_mark([w |-> W2, clean |-> 1], 0), LAMBDA R : od_finish(R))))

RECURSIVE dds_loop(_, _)
dds_loop(W, i) ==
    IF i >= W.mem.attached_devices
    THEN W
    ELSE LET m == W.mem.backdev[i].devmagic
             W1 == [W EXCEPT !.mem.backdev[i].bitlistsize = m.bitlistsize,
                             !.mem.backdev[i].startofdata = TIER_HEADERSIZE,
                             !.mem.backdev[i].startofbitlist = m.startofbitlist,
                             !.mem.backdev[i].devicesize = m.devicesize]
             W2 == IF i > 0
                   THEN [W1 EXCEPT !.mem.backdev[i].endofdata = m.startofbitlist - 1]
                   ELSE W1
         IN  Then(W2, LAMBDA V : dds_loop(V, i + 1))

determine_device_size(W) ==
    LET m0 == W.mem.backdev[0].devmagic
    IN  dds_loop([W EXCEPT !.mem.size = m0.total_device_size,
                           !.mem.backdev[0].startofblocklist = m0.startofblocklist,
                           !.mem.blocklistsize = m0.blocklistsize,
                           !.mem.backdev[0].endofdata = m0.startofblocklist - 1], 0)

load_blocklist(W) ==
    LET blocks == W.mem.size \div BLKSIZE
        bad == \E b \in 0 .. (blocks - 1) : ~IoOk(W, 0, BlocklistPos(W, b))
        W1 == [W EXCEPT !.mem.blocklist =
                  [i \in 1 .. blocks |-> tier_file_read(W, 0, BlocklistPos(W, i - 1))]]
    IN  IF bad THEN tiererror(W1) ELSE W1

\* what load_blocklist returns: the result of its last read
load_blocklist_ret(W) ==
    LET blocks == W.mem.size \div BLKSIZE
    IN  IF blocks > 0 /\ ~IoOk(W, 0, BlocklistPos(W, blocks - 1)) THEN 0 - EIO ELSE 0

RECURSIVE load_bitlists_from(_, _)
load_bitlists_from(W, device) ==
    IF device >= W.mem.attached_devices
    THEN W
    ELSE LET backdev == W.mem.backdev[device]
         IN  Then([W EXCEPT !.mem.backdev[device].bitlist =
                      [i \in 1 .. PageRound(backdev.bitlistsize) |->
                          ByteOf(tier_file_read(W, device, backdev.startofbitlist + i - 1))]],
                  LAMBDA V : load_bitlists_from(V, device + 1))

load_bitlists(W) ==
    load_bitlists_from(W, 0)

\* tier_device_register: the lists are loaded (lines 1652-1657)
tier_device_register(W) ==
    Then(load_blocklist(W), LAMBDA V : load_bitlists(V))

\* TIER_INIT and one TIER_SET_FD per store, in the order given
tier_set_fds(W, order) ==
    [W EXCEPT !.mem = [ZeroDev EXCEPT
        !.attached_devices = NumTiers,
        !.backdev = [t \in Tiers |-> [ZeroBackdev EXCEPT !.fds = order[t],
                                                         !.devmagic = W.disk.hdr[order[t]]]]]]

\* tier_ioctl, TIER_REGISTER (lines 2456-2469)
tier_register(W) ==
    Then(order_devices(W),
         LAMBDA W1 : Then(determine_device_size(W1), LAMBDA W2 : tier_device_register(W2)))

RECURSIVE free_blocklist_from(_, _)
free_blocklist_from(W, curblock) ==
    IF curblock >= Len(W.mem.blocklist)
    THEN W
    ELSE Then(update_blocklist(W, curblock), LAMBDA V : free_blocklist_from(V, curblock + 1))

\* free_blocklist: every cached entry goes through update_blocklist, then the cache is
\* freed
free_blocklist(W) ==
    Then(W, LAMBDA V : [free_blocklist_from(V, 0) EXCEPT !.mem.blocklist = << >>])

RECURSIVE destroy_clean(_, _)
destroy_clean(W, i) ==
    IF i >= W.mem.attached_devices
    THEN W
    ELSE Then(clean_blocklist_journal(W, i), LAMBDA V : destroy_clean(V, i + 1))

\* tier_device_destroy of an active device
tier_device_destroy(W) ==
    Then(free_blocklist(W), LAMBDA V : [destroy_clean(V, 0) EXCEPT !.mem = ZeroDev])

(* ------------------------------------------------------------------ *)
(* Layout of a formatted tier set                                       *)
(* ------------------------------------------------------------------ *)
\* calc_bitlist_size: one byte per block of the store
calc_bitlist_size(devicesize) ==
    devicesize \div BLKSIZE

\* calc_blocklist_size: one entry per block of the net size
calc_blocklist_size(total_device_size, total_bitlist_size) ==
    ((total_device_size - total_bitlist_size) \div BLKSIZE) * EntrySize

\* round_to_blksize
round_to_blksize(size) ==
    (size \div BLKSIZE) * BLKSIZE

\* sector_divide(size, sector_size) for a power of two sector_size
RECURSIVE sector_divide(_, _)
sector_divide(size, sector_size) ==
    IF sector_size <= 1 THEN size ELSE sector_divide(size \div 2, sector_size \div 2)

\* tier_sync: sync_device syncs a store only when backdev->dirty is set, and nothing
\* sets it
tier_sync_ret(W) ==
    0

\* capacity of each store when formatted and after it has been grown, and the logical
\* blocks of the device
FormatSize ==
    [t \in Tiers |-> IF t = 0 THEN 24 ELSE 20]

GrowSize ==
    [t \in Tiers |-> MaxCap]

FormatBlocks ==
    3

FormatMagic(t) ==
    LET bl == calc_bitlist_size(FormatSize[t])
    IN  [ZeroMagic EXCEPT
            !.device = t,
            !.devicesize = FormatSize[t],
            !.bitlistsize = bl,
            !.startofbitlist = FormatSize[t] - bl,
            !.blocklistsize = IF t = 0 THEN FormatBlocks * EntrySize ELSE 0,
            !.startofblocklist = IF t = 0 THEN FormatSize[0] - bl - (FormatBlocks * EntrySize) ELSE 0,
            !.total_device_size = IF t = 0 THEN FormatBlocks * BLKSIZE ELSE 0]

FormatDisk ==
    [hdr |-> [t \in Tiers |-> FormatMagic(t)],
     cell |-> [t \in Tiers |-> [p \in Cells |-> ZeroEntry]],
     cap |-> [t \in Tiers |-> FormatSize[t]],
     failing |-> [t \in Tiers |-> FALSE]]

(* ------------------------------------------------------------------ *)
(* Resize                                                               *)
(* ------------------------------------------------------------------ *)
RECURSIVE calc_new_devsize_from(_, _, _, _)
calc_new_devsize_from(W, cdev, curdevsize, i) ==
    IF i >= W.mem.attached_devices
    THEN 0
    ELSE (IF cdev = i
          THEN curdevsize - TIER_DEVICE_PLAYGROUND - TIER_HEADERSIZE
          ELSE W.mem.backdev[i].devicesize - TIER_DEVICE_PLAYGROUND)
         + calc_new_devsize_from(W, cdev, curdevsize, i + 1)

calc_new_devsize(W, cdev, curdevsize) ==
    calc_new_devsize_from(W, cdev, curdevsize, 0)

RECURSIVE new_total_bitlistsize_from(_, _, _, _)
new_total_bitlistsize_from(W, cdev, curbitlistsize, i) ==
    IF i >= W.mem.attached_devices
    THEN 0
    ELSE (IF cdev = i THEN curbitlistsize ELSE W.mem.backdev[i].bitlistsize)
         + new_total_bitlistsize_from(W, cdev, curbitlistsize, i + 1)

new_total_bitlistsize(W, cdev, curbitlistsize) ==
    new_total_bitlistsize_from(W, cdev, curbitlistsize, 0)

\* one read into the buffer and one write from it, len cells: [w, res]
copy_chunk(W, devicenr, from, len, to) ==
    LET s == Store(W, devicenr)
        rok == IoOk(W, devicenr, from) /\ from + len <= W.disk.cap[s]
        wok == IoOk(W, devicenr, to) /\ to + len <= W.disk.cap[s]
    IN  IF ~rok
        THEN [w |-> W, res |-> 0 - EIO]
        ELSE IF ~wok
        THEN [w |-> W, res |-> 0 - EIO]
        ELSE [w |-> [W EXCEPT !.disk.cell[s] =
                        [p \in Cells |-> IF p >= to /\ p < to + len
                                         THEN W.disk.cell[s][from + (p - to)]
                                         ELSE @[p]]],
              res |-> 0]

\* copylist, the loop over whole pages (lines 2095-2105): R = [w, res, offset]
RECURSIVE copylist_pages(_, _, _, _, _)
copylist_pages(R, devicenr, ostart, osize, nstart) ==
    IF ~(R.offset + PAGE_SIZE < osize)
    THEN R
    ELSE Then(copy_chunk(R.w, devicenr, ostart + R.offset, PAGE_SIZE, nstart + R.offset),
              LAMBDA c :
                  IF c.res < 0
                  THEN [R EXCEPT !.res = c.res]
                  ELSE copylist_pages([w |-> c.w, res |-> 0, offset |-> R.offset + PAGE_SIZE],
                                      devicenr, ostart, osize, nstart))

\* copylist(dev, devicenr, ostart, osize, nstart): [w, res]
\* copylist, the rest after the whole pages (lines 2106-2119)
copylist_rest(R, devicenr, ostart, osize, nstart) ==
    Then(IF R.offset < osize /\ R.res = 0
         THEN copy_chunk(R.w, devicenr, ostart + R.offset, osize - R.offset,
                         nstart + R.offset)
         ELSE [w |-> R.w, res |-> R.res],
         LAMBDA last : [w |-> last.w, res |-> IF last.res < 0 THEN 0 - 1 ELSE last.res])

copylist(W, devicenr, ostart, osize, nstart) ==
    Then(copylist_pages([w |-> W, res |-> 0, offset |-> 0], devicenr, ostart, osize, nstart),
         LAMBDA R : copylist_rest(R, devicenr, ostart, osize, nstart))

\* migrate_bitlist(dev, devicenr, newstartofbitlist, newbitlistsize): [w, res]
\* migrate_bitlist after a successful copylist (lines 2143-2157)
mbit_switch(W, devicenr, newstartofbitlist, newbitlistsize) ==
    LET backdev == W.mem.backdev[devicenr]
    IN  Then(wipe_bitlist(W, devicenr, newstartofbitlist + backdev.bitlistsize,
                          newbitlistsize - backdev.bitlistsize),
             LAMBDA W1 :
                 IF W1.disk.failing[Store(W1, devicenr)]
                 THEN [w |-> W1, res |-> 0 - EIO]
                 ELSE [w |-> [W1 EXCEPT
                         !.mem.backdev[devicenr].startofbitlist = newstartofbitlist,
                         !.mem.backdev[devicenr].bitlistsize = newbitlistsize,
                         !.mem.backdev[devicenr].devmagic.startofbitlist = newstartofbitlist,
                         !.mem.backdev[devicenr].devmagic.bitlistsize = newbitlistsize],
                       res |-> 0])

migrate_bitlist(W, devicenr, newstartofbitlist, newbitlistsize) ==
    LET backdev == W.mem.backdev[devicenr]
    IN  IF newstartofbitlist + newbitlistsize < backdev.devicesize
        THEN [w |-> W, res |-> 0 - 1]
        ELSE Then(copylist(W, devicenr, backdev.startofbitlist, backdev.bitlistsize,
                           newstartofbitlist),
                  LAMBDA c :
                      IF c.res # 0
                      THEN c
                      ELSE mbit_switch(c.w, devicenr, newstartofbitlist, newbitlistsize))

\* migrate_blocklist(dev, newstartofblocklist, newblocklistsize): [w, res]
\* migrate_blocklist after a successful copylist (lines 2174-2188)
mblk_switch(W, newstartofblocklist, newblocklistsize) ==
    Then(wipe_bitlist(W, 0, newstartofblocklist + W.mem.blocklistsize,
                      newblocklistsize - W.mem.blocklistsize),
         LAMBDA W1 :
             IF W1.disk.failing[Store(W1, 0)]
             THEN [w |-> W1, res |-> 0 - EIO]
             ELSE [w |-> [W1 EXCEPT
                     !.mem.blocklistsize = newblocklistsize,
                     !.mem.backdev[0].startofblocklist = newstartofblocklist,
                     !.mem.backdev[0].endofdata = newstartofblocklist - 1,
                     !.mem.backdev[0].devmagic.blocklistsize = newblocklistsize,
                     !.mem.backdev[0].devmagic.startofblocklist = newstartofblocklist],
                   res |-> 0])

migrate_blocklist(W, newstartofblocklist, newblocklistsize) ==
    Then(copylist(W, 0, W.mem.backdev[0].startofblocklist, W.mem.blocklistsize,
                  newstartofblocklist),
         LAMBDA c :
             IF c.res # 0 THEN c ELSE mblk_switch(c.w, newstartofblocklist, newblocklistsize))

\* migrate_data_if_needed after a successful copyblock (lines 2232-2236): orgbinfo points
\* at the cached entry, binfo is the caller's copy
mdin_relocated(S1, curblock) ==
    Then(reset_counters_on_migration(S1.w, OldDev(S1)),
         LAMBDA W1 :
             Then(clear_dev_list(W1, get_blockinfo(W1, curblock)),
                  LAMBDA W2 : write_blocklist(W2, curblock, S1.newbuf, WC, FALSE).w))

\* migrate_data_if_needed, one block (lines 2211-2248): R = [w, res, stop]
mdin_block(R, curblock, startofblocklist, blocklistsize, changeddevice) ==
    LET orgbinfo == get_blockinfo(R.w, curblock)
        inrange == /\ orgbinfo.offset >= startofblocklist
                   /\ orgbinfo.offset <= startofblocklist + blocklistsize
    IN  IF R.w.mem.inerror # 0
        THEN [R EXCEPT !.res = 0 - EIO, !.stop = TRUE]
        ELSE IF orgbinfo.device # 1
        THEN R
        ELSE IF ~inrange
        THEN R
        ELSE Then(copyblock([w |-> R.w, cur |-> curblock, newIsCache |-> FALSE,
                             oldIsCache |-> TRUE,
                             newbuf |-> [orgbinfo EXCEPT !.device = changeddevice + 1],
                             oldbuf |-> ZeroEntry, res |-> 0]),
                  LAMBDA S1 :
                      IF S1.res = 0
                      THEN [w |-> mdin_relocated(S1, curblock), res |-> 0 - 1, stop |-> TRUE]
                      ELSE [R EXCEPT !.w = S1.w])

RECURSIVE mdin_loop(_, _, _, _, _)
mdin_loop(R, curblock, startofblocklist, blocklistsize, changeddevice) ==
    IF R.stop \/ curblock >= (R.w.mem.size \div BLKSIZE)
    THEN R
    ELSE Then(mdin_block(R, curblock, startofblocklist, blocklistsize, changeddevice),
              LAMBDA R1 : mdin_loop(R1, curblock + 1, startofblocklist, blocklistsize,
                                    changeddevice))

\* migrate_data_if_needed(dev, startofblocklist, blocklistsize, changeddevice): [w, res]
migrate_data_if_needed(W, startofblocklist, blocklistsize, changeddevice) ==
    Then(mdin_loop([w |-> W, res |-> 0, stop |-> FALSE], 0, startofblocklist,
                   blocklistsize, changeddevice),
         LAMBDA R : [w |-> R.w, res |-> R.res])

\* do_resize_tier, from the store of devicesize on (lines 2314-2321)
drt_finish(W, devicenr, newdevsize) ==
    Then([W EXCEPT !.mem.backdev[devicenr].devicesize = newdevsize,
                   !.mem.backdev[devicenr].devmagic.devicesize = newdevsize],
         LAMBDA W1 : [w |-> write_device_magic(W1, devicenr), res |-> tier_sync_ret(W1)])

\* do_resize_tier, the branch of a store other than that of tier 0 (lines 2289-2312)
drt_other(b, devicenr, newdevsize, newstartofblocklist, newblocklistsize, newstartofbitlist) ==
    IF newblocklistsize > b.w.mem.blocklistsize
    THEN Then(migrate_data_if_needed(b.w, newstartofblocklist, newblocklistsize, devicenr),
              LAMBDA d :
                  IF d.res # 0
                  THEN d
                  ELSE Then(migrate_blocklist(d.w, newstartofblocklist, newblocklistsize),
                            LAMBDA l :
                                IF l.res # 0
                                THEN l
                                ELSE drt_finish(
                                         [write_device_magic(l.w, 0) EXCEPT
                                             !.mem.backdev[devicenr].endofdata =
                                                 newstartofbitlist - 1],
                                         devicenr, newdevsize)))
    ELSE drt_finish([b.w EXCEPT !.mem.backdev[devicenr].endofdata = newstartofbitlist - 1],
                    devicenr, newdevsize)

\* do_resize_tier(dev, devicenr, newdevsize, newblocklistsize, newbitlistsize): [w, res]
do_resize_tier(W, devicenr, newdevsize, newblocklistsize, newbitlistsize) ==
    Then(migrate_bitlist(W, devicenr, newdevsize - newbitlistsize, newbitlistsize),
         LAMBDA b :
             LET newstartofblocklist == b.w.mem.backdev[0].startofbitlist - newblocklistsize
             IN  IF b.res # 0
                 THEN b
                 ELSE IF devicenr = 0
                 THEN Then(migrate_blocklist(b.w, newstartofblocklist, newblocklistsize),
                           LAMBDA l :
                               IF l.res # 0 THEN l ELSE drt_finish(l.w, devicenr, newdevsize))
                 ELSE drt_other(b, devicenr, newdevsize, newstartofblocklist,
                                newblocklistsize, newdevsize - newbitlistsize))

\* free_bitlists
RECURSIVE free_bitlists_from(_, _)
free_bitlists_from(W, device) ==
    IF device >= W.mem.attached_devices
    THEN W
    ELSE Then([W EXCEPT !.mem.backdev[device].bitlist = << >>],
              LAMBDA V : free_bitlists_from(V, device + 1))

\* register_new_device_size(dev, newdevsize)
\* register_new_device_size from the new size on (lines 1781-1800)
rnds_load(W1, newdevsize) ==
    LET size == sector_divide(newdevsize, LogicalBlockSize) * LogicalBlockSize
    IN  Then(write_device_magic(
                 [W1 EXCEPT !.mem.size = size,
                            !.mem.backdev[0].devmagic.total_device_size = size], 0),
             LAMBDA W2 :
                 Then(load_blocklist(W2),
                      LAMBDA W3 : IF load_blocklist_ret(W2) # 0
                                  THEN tiererror(W3)
                                  ELSE load_bitlists(W3)))

register_new_device_size(W, newdevsize) ==
    Then(free_bitlists_from(W, 0),
         LAMBDA V : Then(free_blocklist(V), LAMBDA W1 : rnds_load(W1, newdevsize)))

\* resize_tier, one store (lines 2340-2371): R = [w, res, found, newdevsize]
rt_store(R, count) ==
    LET W == R.w
        backdev == W.mem.backdev[count]
        curdevsize == round_to_blksize(W.disk.cap[Store(W, count)])
        newbitlistsize == calc_bitlist_size(curdevsize)
        total == calc_new_devsize(W, count, curdevsize)
        newbitlistsize_total == new_total_bitlistsize(W, count, newbitlistsize)
        newblocklistsize == calc_blocklist_size(total, newbitlistsize_total)
        newdevsize == total - newblocklistsize - newbitlistsize_total
    IN  IF backdev.devicesize = curdevsize
        THEN R
        ELSE IF ((curdevsize - backdev.devicesize) % U64) < newbitlistsize
        THEN R
        ELSE IF curdevsize < backdev.devicesize + newblocklistsize + newbitlistsize + BLKSIZE
        THEN [R EXCEPT !.newdevsize = newdevsize]
        ELSE Then(do_resize_tier(W, count, curdevsize, newblocklistsize, newbitlistsize),
                  LAMBDA r : [w |-> r.w, res |-> r.res, found |-> R.found + 1,
                              newdevsize |-> newdevsize])

RECURSIVE rt_loop(_, _)
rt_loop(R, count) ==
    IF count >= R.w.mem.attached_devices
    THEN R
    ELSE Then(rt_store(R, count), LAMBDA R1 : rt_loop(R1, count + 1))

\* resize_tier(dev)
resize_tier(W) ==
    Then(rt_loop([w |-> W, res |-> 1, found |-> 0, newdevsize |-> 0], 0),
         LAMBDA R :
             IF R.found # 0 /\ R.res = 0
             THEN register_new_device_size(R.w, R.newdevsize)
             ELSE R.w)

(* ------------------------------------------------------------------ *)
(* State                                                                *)
(*   disk, mem, now   the world                                         *)
(*   up      the device is registered                                   *)
(*   txn     the do_migrate_direct call in progress and its position    *)
(*   crashes, grown, faults   how often the environment has acted       *)
(*   hist    the call a power loss interrupted, and whether the last    *)
(*           attach ran repair_bitlists                                 *)
(*   ctl     the flags the threads of the device synchronise on, and    *)
(*           where each thread stands                                   *)
(* ------------------------------------------------------------------ *)
VARIABLES disk, mem, now, up, txn, crashes, grown, faults, hist, ctl

vars == <<disk, mem, now, up, txn, crashes, grown, faults, hist, ctl>>

World ==
    [disk |-> disk, mem |-> mem, now |-> now]

IdleTxn ==
    [pc |-> "idle", cur |-> 0, newIsCache |-> TRUE, oldIsCache |-> FALSE,
     newbuf |-> ZeroEntry, oldbuf |-> ZeroEntry, res |-> 0]

NoHist ==
    [pc |-> "none", cur |-> 0, old |-> ZeroEntry, new |-> ZeroEntry, repair |-> FALSE,
     avg |-> 0, avgnext |-> 0, room |-> FALSE,
     pre |-> ZeroEntry, preavg |-> 0, roombelow |-> FALSE, at |-> 0,
     pretotal |-> [reads |-> 0, writes |-> 0]]

\* the synchronisation state of a device no thread works on; pc is where data_migrator,
\* resize_tier, btier_clear_statistics and migrate_direct stand, job, curblock, interrupted,
\* blocknr and newdevice are locals of data_migrator's callees, req the arguments of the
\* migrate_direct call in progress, accepted the arguments of the last call that returned
\* 0, nacc and nexe the calls accepted and the runs of do_migrate_direct, checked that
\* the walker's last look at wqlock found no foreground I/O, alloc the two request-path
\* callers of allocate_dev: where each is, for which block, and what it holds in binfo,
\* delay the last value given to migrate_timer.expires: "interval" for
\* migration_interval seconds, "backoff" for 3000 ms, "retry" for 300 ms
IdleCtl ==
    [migrate |-> 0, wqlock |-> 0, aio_pending |-> 0, arrived |-> 0,
     mgdirect |-> [direct |-> 0, blocknr |-> 0, newdevice |-> 0],
     timer |-> FALSE, resumeblockwalk |-> 0, qlock |-> "free",
     pc |-> [migrator |-> "off", resize |-> "idle", clear |-> "idle", request |-> "idle"],
     job |-> "none", curblock |-> 0, interrupted |-> 0, blocknr |-> 0, newdevice |-> 0,
     req |-> [blocknr |-> 0, newdevice |-> 0], ret |-> 0,
     accepted |-> [blocknr |-> 0, newdevice |-> 0], nacc |-> 0, nexe |-> 0,
     checked |-> FALSE, delay |-> "none",
     alloc |-> [T \in {"first", "second"} |->
                   [pc |-> "idle", blocknr |-> 0, binfo |-> ZeroEntry, ret |-> 0]]]

\* tier_device_register (lines 1663-1668, 1746-1754): flags cleared, timer armed,
\* data_migrator started
StartCtl ==
    [IdleCtl EXCEPT !.timer = TRUE, !.delay = "interval", !.pc.migrator = "check"]

\* the transaction state S of the call in progress
TxnS ==
    [w |-> World, cur |-> txn.cur, newIsCache |-> txn.newIsCache,
     oldIsCache |-> txn.oldIsCache, newbuf |-> txn.newbuf, oldbuf |-> txn.oldbuf,
     res |-> txn.res]

SetWorld(W) ==
    /\ disk' = W.disk
    /\ mem' = W.mem

\* the variables after a step of the transaction that leaves it at pc
SetTxn(S, pc) ==
    /\ SetWorld(S.w)
    /\ txn' = IF pc = "idle"
              THEN IdleTxn
              ELSE [pc |-> pc, cur |-> S.cur, newIsCache |-> S.newIsCache,
                    oldIsCache |-> S.oldIsCache, newbuf |-> S.newbuf,
                    oldbuf |-> S.oldbuf, res |-> S.res]

\* the logical blocks the workload touches
Blocks ==
    0 .. ((IF Len(mem.blocklist) < WorkBlocks THEN Len(mem.blocklist) ELSE WorkBlocks) - 1)

Init ==
    /\ disk = FormatDisk
    /\ mem = ZeroDev
    /\ now = 0
    /\ up = FALSE
    /\ txn = IdleTxn
    /\ crashes = 0
    /\ grown = 0
    /\ faults = 0
    /\ hist = NoHist
    /\ ctl = IdleCtl

(* ------------------------------------------------------------------ *)
(* Actions                                                              *)
(* ------------------------------------------------------------------ *)
\* TIER_INIT, TIER_SET_FD for every store, TIER_REGISTER; tier_set_fd turns away a store
\* whose header it cannot read (lines 1869-1881)
Register ==
    /\ ~up
    /\ \A t \in Tiers : ~disk.failing[t]
    /\ \E W \in {tier_register(tier_set_fds(World, [t \in Tiers |-> t]))} : SetWorld(W)
    /\ up' = TRUE
    /\ hist' = [hist EXCEPT !.repair = \E t \in Tiers : disk.hdr[t].clean # CLEAN]
    /\ UNCHANGED <<now, txn, crashes, grown, faults, ctl>>

\* TIER_DEREGISTER: tier_device_destroy
Deregister ==
    /\ up
    /\ txn.pc = "idle"
    /\ \E W \in {tier_device_destroy(World)} : SetWorld(W)
    /\ up' = FALSE
    /\ UNCHANGED <<now, txn, crashes, grown, faults, hist, ctl>>

\* power loss: memory is gone, the stores keep what was written
Crash ==
    /\ up
    /\ crashes < MaxCrashes
    /\ mem' = ZeroDev
    /\ up' = FALSE
    /\ txn' = IdleTxn
    /\ crashes' = crashes + 1
    /\ hist' = [NoHist EXCEPT !.pc = txn.pc, !.cur = txn.cur, !.old = txn.oldbuf,
                               !.new = IF txn.pc = "idle" THEN ZeroEntry ELSE NewDev(TxnS)]
    /\ UNCHANGED <<disk, now, grown, faults, ctl>>

\* the request path's allocation for a block that has no slot yet: allocate_dev on tier
\* device, then the entry committed to cache and disk
ForegroundAllocate(b, device) ==
    /\ up
    /\ txn.pc = "idle"
    /\ mem.inerror = 0
    /\ b \in Blocks
    /\ get_blockinfo(World, b).device = 0
    /\ \E a \in {allocate_dev(World, get_blockinfo(World, b), device)} :
          \E r \in {write_blocklist(a.w, b, a.binfo, WA, FALSE)} :
              /\ a.binfo.device # 0
              /\ a.ret = 0
              /\ r.ret = 0
              /\ SetWorld(r.w)
    /\ UNCHANGED <<now, up, txn, crashes, grown, faults, hist, ctl>>

\* do_migrate_direct up to the slot reservation of copyblock (lines 1131-1161, 738-761):
\* what it does to the device and where it leaves the transaction
TxnBegin(b, newdevice) ==
    LET binfo == get_blockinfo(World, b)
        W1 == [World EXCEPT !.mem.backdev[0].devmagic.dtapolicy.migration_disabled = 1]
        S0 == [w |-> SetCache(W1, b, [binfo EXCEPT !.device = newdevice + 1]),
               cur |-> b, newIsCache |-> TRUE, oldIsCache |-> FALSE,
               newbuf |-> ZeroEntry, oldbuf |-> binfo, res |-> 0]
        S1 == cb_reserve(S0)
    IN  IF binfo.device = 0 \/ binfo.device - 1 = newdevice
        THEN /\ SetWorld(W1)
             /\ txn' = IdleTxn
        ELSE IF S1.res # 0
        THEN SetTxn(after_copyblock(S1), "idle")
        ELSE SetTxn(S1, "reserved")

DirectBegin(b, newdevice) ==
    /\ up
    /\ txn.pc = "idle"
    /\ mem.inerror = 0
    /\ b \in Blocks
    /\ TxnBegin(b, newdevice)
    /\ UNCHANGED <<now, up, crashes, grown, faults, hist, ctl>>

\* copyblock: tier_moving_block
MoveBlock ==
    /\ up
    /\ txn.pc = "reserved"
    /\ LET S1 == cb_move(TxnS)
       IN  IF S1.res # 0
           THEN SetTxn(after_copyblock(S1), "idle")
           ELSE SetTxn(S1, "copied")
    /\ UNCHANGED <<now, up, crashes, grown, faults, hist, ctl>>

\* copyblock: write_blocklist_journal
JournalWrite ==
    /\ up
    /\ txn.pc = "copied"
    /\ SetTxn(cb_journal(TxnS), "journaled")
    /\ UNCHANGED <<now, up, crashes, grown, faults, hist, ctl>>

\* copyblock: write_blocklist WA
Commit ==
    /\ up
    /\ txn.pc = "journaled"
    /\ SetTxn(cb_commit(TxnS), "committed")
    /\ UNCHANGED <<now, up, crashes, grown, faults, hist, ctl>>

\* copyblock: sync_device and clean_blocklist_journal
JournalClean ==
    /\ up
    /\ txn.pc = "committed"
    /\ SetTxn(cb_clean(TxnS), "cleaned")
    /\ UNCHANGED <<now, up, crashes, grown, faults, hist, ctl>>

\* do_migrate_direct after a successful copyblock: counters, old slot, unlock
Finish ==
    /\ up
    /\ txn.pc = "cleaned"
    /\ SetTxn(after_copyblock(TxnS), "idle")
    /\ UNCHANGED <<now, up, crashes, grown, faults, hist, ctl>>

\* the administrator enlarges the store behind tier t
GrowStore(t) ==
    /\ grown < MaxGrow
    /\ disk.cap[t] = FormatSize[t]
    /\ disk' = [disk EXCEPT !.cap[t] = GrowSize[t]]
    /\ grown' = grown + 1
    /\ UNCHANGED <<mem, now, up, txn, crashes, faults, hist, ctl>>

\* resize_tier, under btier_lock
Resize ==
    /\ up
    /\ txn.pc = "idle"
    /\ \E W \in {resize_tier(World)} : SetWorld(W)
    /\ UNCHANGED <<now, up, txn, crashes, grown, faults, hist, ctl>>

\* the store behind tier t starts or stops answering with I/O errors
Fault(t) ==
    /\ faults < MaxFaults
    /\ disk' = [disk EXCEPT !.failing[t] = ~@]
    /\ faults' = faults + 1
    /\ UNCHANGED <<mem, now, up, txn, crashes, grown, hist, ctl>>

\* a second passes
Tick ==
    /\ now < MaxNow
    /\ now' = now + 1
    /\ UNCHANGED <<disk, mem, up, txn, crashes, grown, faults, hist, ctl>>

\* what migrate_up_ifneeded is handed for block b: the entry, the averages of its tier
\* and of the next faster one, and whether that tier has a slot to give
WalkView(d, b) ==
    LET e == get_blockinfo(d.w, b)
    IN  [NoHist EXCEPT
            !.pc = IF d.res = 0 /\ e.device # 0 THEN "walk" ELSE "skip",
            !.cur = b,
            !.old = e,
            !.avg = IF e.device >= 1 THEN avghitcount_of(d.w, e.device - 1) ELSE 0,
            !.avgnext = IF e.device >= 2 THEN avghitcount_of(d.w, e.device - 2) ELSE 0,
            !.room = /\ e.device >= 2
                     /\ allocate_dev(d.w, [e EXCEPT !.device = 0], e.device - 2).binfo.device # 0]

\* what migrate_down_ifneeded is handed for block b in world W: the entry, the time, the
\* totals of its tier and the average walk_blocklist has just recomputed from them, and
\* whether the tier below has a slot to give
WalkPreview(h, W, b) ==
    LET e == get_blockinfo(W, b)
    IN  [h EXCEPT
            !.pre = e,
            !.at = W.now,
            !.pretotal = IF e.device >= 1
                         THEN [reads |-> W.mem.backdev[e.device - 1].devmagic.total_reads,
                               writes |-> W.mem.backdev[e.device - 1].devmagic.total_writes]
                         ELSE @,
            !.preavg = IF e.device >= 1
                       THEN avghitcount_of(walk_averages(W, e.device - 1), e.device - 1)
                       ELSE 0,
            !.roombelow = /\ e.device >= 1
                          /\ e.device < W.mem.attached_devices
                          /\ allocate_dev(W, [e EXCEPT !.device = 0], e.device).binfo.device # 0]

\* walk_blocklist: one turn of the loop, for block b
WalkBlock(b) ==
    /\ up
    /\ txn.pc = "idle"
    /\ mem.inerror = 0
    /\ mem.backdev[0].devmagic.dtapolicy.migration_disabled = 0
    /\ b \in Blocks
    /\ \E W \in {walk_block(World, b)} : SetWorld(W)
    /\ \E d \in {IF get_blockinfo(World, b).device = 0
                  THEN [w |-> World, res |-> 0]
                  ELSE walk_down(World, b)} : hist' = WalkPreview(WalkView(d, b), World, b)
    /\ UNCHANGED <<now, up, txn, crashes, grown, faults, ctl>>

DirectStep ==
    \/ \E b \in Blocks, t \in Tiers : DirectBegin(b, t)
    \/ MoveBlock
    \/ JournalWrite
    \/ Commit
    \/ JournalClean
    \/ Finish

\* migration and power loss
Next ==
    \/ Register
    \/ Deregister
    \/ Crash
    \/ \E b \in Blocks, t \in Tiers : ForegroundAllocate(b, t)
    \/ DirectStep

Spec ==
    Init /\ [][Next]_vars

\* migration and resize, no power loss
NextResize ==
    \/ Register
    \/ \E b \in Blocks, t \in Tiers : ForegroundAllocate(b, t)
    \/ DirectStep
    \/ \E t \in Tiers : GrowStore(t)
    \/ Resize

SpecResize ==
    Init /\ [][NextResize]_vars

\* migration on stores that may fail
NextIO ==
    \/ Register
    \/ \E b \in Blocks, t \in Tiers : ForegroundAllocate(b, t)
    \/ DirectStep
    \/ \E t \in Tiers : Fault(t)

SpecIO ==
    Init /\ [][NextIO]_vars

\* the totals the request path has counted on the tiers
HeatTotals ==
    {0, 6, 10, 30, 60}

\* the hits the request path has counted on the block the walker looks at
HeatHits ==
    (0 .. MaxHits) \cup {14, 16}

\* the request path's first write to block b, placed on tier device: [w, ok]
first_write(W, b, device) ==
    Then(allocate_dev(W, get_blockinfo(W, b), device),
         LAMBDA a :
             Then(write_blocklist(a.w, b, a.binfo, WA, FALSE),
                  LAMBDA r : [w |-> r.w,
                              ok |-> a.binfo.device # 0 /\ a.ret = 0 /\ r.ret = 0]))

\* blocks from .. 1 written for the first time on tier device
RECURSIVE fill_tier(_, _, _)
fill_tier(W, from, device) ==
    IF from < 1 THEN W ELSE Then(first_write(W, from, device).w,
                                 LAMBDA V : fill_tier(V, from - 1, device))

\* total_reads of tier device counted up to total, its average as the walker left it
with_total(W, device, total) ==
    [W EXCEPT !.mem.backdev[device].devmagic.total_reads = total,
              !.mem.backdev[device].devmagic.average_reads =
                  btier_div(total, W.mem.backdev[device].devicesize \div BLKSIZE)]

\* a registered device some time into its use: block 0 on the slowest tier with hits
\* reads, fill more blocks on the tier above it, totalslow and totalfast reads counted
HeatWorld(hits, totalslow, totalfast, fill) ==
    Then(tier_register(tier_set_fds([disk |-> FormatDisk, mem |-> ZeroDev, now |-> 0],
                                    [t \in Tiers |-> t])),
         LAMBDA W0 :
             Then(fill_tier(first_write(W0, 0, NumTiers - 1).w, fill, NumTiers - 2),
                  LAMBDA W1 :
                      with_total(with_total(SetCache(W1, 0, [get_blockinfo(W1, 0) EXCEPT
                                                                !.readcount = hits]),
                                            NumTiers - 1, totalslow),
                                 NumTiers - 2, totalfast)))

\* the same history with every read a write and every write a read
writes_for_reads(W) ==
    LET swapped(e) == [e EXCEPT !.readcount = e.writecount, !.writecount = e.readcount]
        turned(m) == [m EXCEPT !.total_reads = m.total_writes,
                               !.total_writes = m.total_reads,
                               !.average_reads = m.average_writes,
                               !.average_writes = m.average_reads]
    IN  [W EXCEPT
            !.mem.blocklist = [i \in 1 .. Len(W.mem.blocklist) |-> swapped(W.mem.blocklist[i])],
            !.mem.backdev = [t \in Tiers |->
                                [W.mem.backdev[t] EXCEPT
                                    !.devmagic = turned(W.mem.backdev[t].devmagic)]]]

HeatInit ==
    /\ \E hits \in HeatHits, totalslow \in HeatTotals, totalfast \in HeatTotals,
          fill \in 0 .. 2, writes \in BOOLEAN :
           /\ totalslow >= hits
           /\ \E W0 \in {HeatWorld(hits, totalslow, totalfast, fill)} :
                  \E W \in {IF writes THEN writes_for_reads(W0) ELSE W0} :
                      disk = W.disk /\ mem = W.mem
    /\ now = 0
    /\ up = TRUE
    /\ txn = IdleTxn
    /\ crashes = 0
    /\ grown = 0
    /\ faults = 0
    /\ hist = NoHist
    /\ ctl = IdleCtl

\* the walker on a device in use
NextHeat ==
    \/ \E b \in Blocks : WalkBlock(b)
    \/ Tick

SpecHeat ==
    HeatInit /\ [][NextHeat]_vars

\* the tier the allocation runs are made on, and the sizes its store is formatted with:
\* with 16 cells the bitlist starts on a block boundary, with FormatSize it does not,
\* with 28 the slots of the data region lie on two pages of the bitlist
AllocTier ==
    NumTiers - 1

AllocSizes ==
    {FormatSize[AllocTier], 4 * BLKSIZE, 7 * BLKSIZE}

\* the formatted stores, that of AllocTier having devicesize cells
AllocDisk(devicesize) ==
    [FormatDisk EXCEPT
        !.cap[AllocTier] = devicesize,
        !.hdr[AllocTier] = [@ EXCEPT
            !.devicesize = devicesize,
            !.bitlistsize = calc_bitlist_size(devicesize),
            !.startofbitlist = devicesize - calc_bitlist_size(devicesize)]]

AllocInit ==
    /\ \E devicesize \in AllocSizes :
           \E W \in {tier_register(tier_set_fds([disk |-> AllocDisk(devicesize), mem |-> ZeroDev,
                                                   now |-> 0],
                                                  [t \in Tiers |-> t]))} :
               disk = W.disk /\ mem = W.mem
    /\ now = 0
    /\ up = TRUE
    /\ txn = IdleTxn
    /\ crashes = 0
    /\ grown = 0
    /\ faults = 0
    /\ hist = NoHist
    /\ ctl = IdleCtl

\* the request path asks allocate_dev for a slot on AllocTier for block b, which has
\* none; what allocate_dev left in binfo is kept in hist.new
AllocAttempt(b) ==
    /\ up
    /\ txn.pc = "idle"
    /\ mem.inerror = 0
    /\ b \in 0 .. (Len(mem.blocklist) - 1)
    /\ get_blockinfo(World, b).device = 0
    /\ \E a \in {allocate_dev(World, get_blockinfo(World, b), AllocTier)} :
          /\ IF a.binfo.device # 0
             THEN \E r \in {write_blocklist(a.w, b, a.binfo, WA, FALSE)} : SetWorld(r.w)
             ELSE SetWorld(a.w)
          /\ hist' = [NoHist EXCEPT !.pc = "alloc", !.cur = b, !.new = a.binfo]
    /\ UNCHANGED <<now, up, txn, crashes, grown, faults, ctl>>

\* allocation, and migration to make room
NextAlloc ==
    \/ \E b \in 0 .. (FormatBlocks - 1) : AllocAttempt(b)
    \/ DirectStep

SpecAlloc ==
    AllocInit /\ [][NextAlloc]_vars

(* ------------------------------------------------------------------ *)
(* The threads of a device: data_migrator (walker and direct            *)
(* migration), resize_tier and btier_clear_statistics called from       *)
(* sysfs, migrate_direct called from sysfs, the migrate timer and the   *)
(* request path                                                         *)
(* ------------------------------------------------------------------ *)
Gatekeepers ==
    {"migrator", "resize", "clear"}

\* wake_up(&dev->migrate_event)
wake_up(c) ==
    IF c.pc.migrator = "asleep" THEN [c EXCEPT !.pc.migrator = "check"] ELSE c

\* btier_unlock
btier_unlock(c) ==
    [c EXCEPT !.migrate = 0, !.qlock = "free"]

migration_disabled(W) ==
    W.mem.backdev[0].devmagic.dtapolicy.migration_disabled

\* a do_migrate_direct that leaves the migration policy as it finds it
do_migrate_direct_policy_kept(W, blocknr, newdevice) ==
    LET binfo == get_blockinfo(W, blocknr)
    IN  IF W.mem.inerror # 0 \/ blocknr >= Len(W.mem.blocklist)
        THEN W
        ELSE IF binfo.device = 0 \/ binfo.device - 1 = newdevice
        THEN W
        ELSE move_and_follow(W, blocknr, binfo, newdevice + 1).w

\* do_migrate_direct between btier_lock and btier_unlock (lines 1132-1176);
\* get_blockinfo gives no entry for a block beyond the device or on a device in error
do_migrate_direct(W, blocknr, newdevice) ==
    LET W1 == [W EXCEPT !.mem.backdev[0].devmagic.dtapolicy.migration_disabled = 1]
        binfo == get_blockinfo(W1, blocknr)
    IN  IF W.mem.inerror # 0 \/ blocknr >= Len(W.mem.blocklist)
        THEN W1
        ELSE IF binfo.device = 0 \/ binfo.device - 1 = newdevice
        THEN W1
        ELSE move_and_follow(W1, blocknr, binfo, newdevice + 1).w

\* btier_clear_statistics between btier_lock and btier_unlock (lines 138-158)
btier_clear_statistics(W) ==
    LET cleared(e) == IF e.device # 0
                      THEN [e EXCEPT !.readcount = 0, !.writecount = 0, !.lastused = W.now]
                      ELSE e
        W1 == IF W.mem.inerror # 0
              THEN W
              ELSE [W EXCEPT !.mem.blocklist =
                       [i \in 1 .. Len(W.mem.blocklist) |-> cleared(W.mem.blocklist[i])]]
    IN  [W1 EXCEPT !.mem.backdev =
            [t \in Tiers |->
                IF t < W.mem.attached_devices
                THEN [W1.mem.backdev[t] EXCEPT !.devmagic.average_reads = 0,
                                               !.devmagic.average_writes = 0,
                                               !.devmagic.total_reads = 0,
                                               !.devmagic.total_writes = 0]
                ELSE W1.mem.backdev[t]]]

\* a step that touches the synchronisation state only
CtlOnly(c) ==
    /\ ctl' = c
    /\ UNCHANGED <<disk, mem, now, up, txn, crashes, grown, faults, hist>>

\* a step of a thread that leaves the world W and the synchronisation state c
CtlWorld(W, c) ==
    /\ SetWorld(W)
    /\ ctl' = c
    /\ UNCHANGED <<now, up, txn, crashes, grown, faults, hist>>

\* migrate_timer_expired
TimerExpired ==
    /\ ctl.timer
    /\ CtlOnly(IF ctl.migrate = 0
               THEN wake_up([ctl EXCEPT !.timer = FALSE, !.migrate = 1])
               ELSE [ctl EXCEPT !.timer = FALSE])

\* data_migrator: wait_event_interruptible (lines 1188-1191)
MigratorWait ==
    /\ ctl.pc.migrator = "check"
    /\ CtlOnly([ctl EXCEPT !.pc.migrator =
                   IF ctl.migrate = 1 \/ ctl.mgdirect.direct = 1 THEN "woken" ELSE "asleep"])

\* data_migrator after the wait (lines 1197-1221): into do_migrate_direct, which reads
\* mgdirect and enters btier_lock, or back off before foreground I/O, or into
\* walk_blocklist, which enters btier_lock
MigratorDispatch ==
    /\ ctl.pc.migrator = "woken"
    /\ CtlOnly(IF ctl.mgdirect.direct = 1
               THEN [ctl EXCEPT !.blocknr = ctl.mgdirect.blocknr,
                                !.newdevice = ctl.mgdirect.newdevice,
                                !.job = "direct",
                                !.migrate = MIGRATION_IO,
                                !.pc.migrator = "down"]
               ELSE IF ctl.wqlock = NORMAL_IO
               THEN [ctl EXCEPT !.timer = IF migration_disabled(World) = 0 THEN TRUE ELSE @,
                                !.delay = "retry",
                                !.migrate = 0,
                                !.pc.migrator = "check"]
               ELSE [ctl EXCEPT !.job = "walk",
                                !.checked = TRUE,
                                !.migrate = MIGRATION_IO,
                                !.pc.migrator = "down"])

\* a btier_lock that does not wait for the write side of qlock
GateDownNoLock(T) ==
    /\ ctl.pc[T] = "down"
    /\ CtlOnly([ctl EXCEPT !.qlock = T, !.pc[T] = "drain"])

\* btier_lock: down_write(&dev->qlock)
GateDown(T) ==
    /\ ctl.pc[T] = "down"
    /\ ctl.qlock = "free"
    /\ CtlOnly([ctl EXCEPT !.qlock = T, !.pc[T] = "drain"])

\* a btier_lock that returns with requests still in flight
GateDrainNoWait(T) ==
    /\ ctl.pc[T] = "drain"
    /\ CtlOnly([ctl EXCEPT !.pc[T] = "body",
                           !.curblock = IF T = "migrator" /\ ctl.job = "walk"
                                        THEN ctl.resumeblockwalk ELSE @,
                           !.interrupted = IF T = "migrator" THEN 0 ELSE @])

\* btier_lock: the wait for aio_pending to reach zero, and the return; walk_blocklist
\* starts its loop at resumeblockwalk
GateDrain(T) ==
    /\ ctl.pc[T] = "drain"
    /\ ctl.aio_pending = 0
    /\ CtlOnly([ctl EXCEPT !.pc[T] = "body",
                           !.curblock = IF T = "migrator" /\ ctl.job = "walk"
                                        THEN ctl.resumeblockwalk ELSE @,
                           !.interrupted = IF T = "migrator" THEN 0 ELSE @])

\* do_migrate_direct from btier_lock's return to btier_unlock
MigratorDirect ==
    /\ ctl.pc.migrator = "body"
    /\ ctl.job = "direct"
    /\ CtlWorld(do_migrate_direct(World, ctl.blocknr, ctl.newdevice),
                btier_unlock([ctl EXCEPT
                    !.timer = IF migration_disabled(World) = 0 THEN FALSE ELSE @,
                    !.nexe = @ + 1,
                    !.pc.migrator = "served"]))

\* data_migrator: atomic_set(&dev->mgdirect.direct, 0) (line 1201)
MigratorDirectDone ==
    /\ ctl.pc.migrator = "served"
    /\ CtlOnly([ctl EXCEPT !.mgdirect.direct = 0, !.job = "none", !.pc.migrator = "check"])

\* a walk_blocklist whose loop does not look at migration_disabled
WalkerBlockAnyPolicy ==
    /\ ctl.pc.migrator = "body"
    /\ ctl.job = "walk"
    /\ IF \/ ctl.curblock >= (mem.size \div BLKSIZE)
          \/ mem.inerror # 0
       THEN CtlOnly([ctl EXCEPT !.pc.migrator = "end"])
       ELSE CtlWorld(walk_block(World, ctl.curblock),
                     [ctl EXCEPT !.checked = FALSE, !.pc.migrator = "yield"])

\* walk_blocklist: the head of the loop and the work on one block (lines 1036-1076)
WalkerBlock ==
    /\ ctl.pc.migrator = "body"
    /\ ctl.job = "walk"
    /\ IF \/ ctl.curblock >= (mem.size \div BLKSIZE)
          \/ migration_disabled(World) # 0
          \/ mem.inerror # 0
       THEN CtlOnly([ctl EXCEPT !.pc.migrator = "end"])
       ELSE CtlWorld(walk_block(World, ctl.curblock),
                     [ctl EXCEPT !.checked = FALSE, !.pc.migrator = "yield"])

\* a walker that goes on to the next block whatever wqlock says
WalkerNoYield ==
    /\ ctl.pc.migrator = "yield"
    /\ CtlOnly([ctl EXCEPT !.curblock = @ + 1, !.checked = TRUE, !.pc.migrator = "body"])

\* walk_blocklist: the look at wqlock after a block (lines 1077-1096)
WalkerYield ==
    /\ ctl.pc.migrator = "yield"
    /\ CtlOnly(IF ctl.wqlock = NORMAL_IO
               THEN [ctl EXCEPT !.resumeblockwalk = ctl.curblock,
                                !.interrupted = 1,
                                !.pc.migrator = "end"]
               ELSE [ctl EXCEPT !.curblock = @ + 1,
                                !.checked = TRUE,
                                !.pc.migrator = "body"])

\* a walk_blocklist that forgets its cursor however the pass ended
WalkerEndReset ==
    /\ ctl.pc.migrator = "end"
    /\ CtlOnly(btier_unlock(
           IF mem.inerror # 0
           THEN [ctl EXCEPT !.job = "none", !.pc.migrator = "check"]
           ELSE [ctl EXCEPT
                    !.resumeblockwalk = 0,
                    !.delay = IF ctl.interrupted = 0 THEN "interval" ELSE "backoff",
                    !.timer = IF migration_disabled(World) = 0 THEN TRUE ELSE @,
                    !.job = "none",
                    !.pc.migrator = "check"]))

\* walk_blocklist after the loop (lines 1097-1118)
WalkerEnd ==
    /\ ctl.pc.migrator = "end"
    /\ CtlOnly(btier_unlock(
           IF mem.inerror # 0
           THEN [ctl EXCEPT !.job = "none", !.pc.migrator = "check"]
           ELSE [ctl EXCEPT
                    !.resumeblockwalk = IF ctl.interrupted = 0 THEN 0 ELSE @,
                    !.delay = IF ctl.interrupted = 0 THEN "interval" ELSE "backoff",
                    !.timer = IF migration_disabled(World) = 0 THEN TRUE ELSE @,
                    !.job = "none",
                    !.pc.migrator = "check"]))

\* resize_tier and btier_clear_statistics are called: btier_lock sets dev->migrate
GateCall(T) ==
    /\ T \in {"resize", "clear"}
    /\ ctl.pc[T] = "idle"
    /\ CtlOnly([ctl EXCEPT !.migrate = MIGRATION_IO, !.pc[T] = "down"])

\* resize_tier from btier_lock's return to btier_unlock
ResizeBody ==
    /\ ctl.pc.resize = "body"
    /\ CtlWorld(resize_tier(World), btier_unlock([ctl EXCEPT !.pc.resize = "idle"]))

\* btier_clear_statistics from btier_lock's return to btier_unlock
ClearBody ==
    /\ ctl.pc.clear = "body"
    /\ CtlWorld(btier_clear_statistics(World), btier_unlock([ctl EXCEPT !.pc.clear = "idle"]))

\* migrate_direct up to its atomic_add_unless (lines 901-904)
DirectRequest(blocknr, device) ==
    /\ ctl.pc.request = "idle"
    /\ ctl.nacc < MaxRequests
    /\ CtlOnly(IF ctl.wqlock = NORMAL_IO \/ ctl.mgdirect.direct = 1
               THEN [ctl EXCEPT !.ret = 0 - EAGAIN]
               ELSE [ctl EXCEPT !.mgdirect.direct = 1,
                                !.req = [blocknr |-> blocknr, newdevice |-> device],
                                !.accepted = [blocknr |-> blocknr, newdevice |-> device],
                                !.nacc = @ + 1,
                                !.ret = 0,
                                !.pc.request = "store"])

\* migrate_direct: the request is stored and data_migrator woken (lines 905-908)
DirectRequestStore ==
    /\ ctl.pc.request = "store"
    /\ CtlOnly(wake_up([ctl EXCEPT !.mgdirect.blocknr = ctl.req.blocknr,
                                   !.mgdirect.newdevice = ctl.req.newdevice,
                                   !.pc.request = "idle"]))

\* the request path: a request arrives and raises wqlock, is submitted under the read
\* side of qlock, and completes
FgArrive ==
    /\ ctl.arrived + ctl.aio_pending < MaxAio
    /\ CtlOnly([ctl EXCEPT !.wqlock = NORMAL_IO, !.arrived = @ + 1])

FgSubmit ==
    /\ ctl.arrived > 0
    /\ ctl.qlock = "free"
    /\ CtlOnly([ctl EXCEPT !.arrived = @ - 1, !.aio_pending = @ + 1])

FgComplete ==
    /\ ctl.aio_pending > 0
    /\ CtlOnly([ctl EXCEPT !.aio_pending = @ - 1,
                           !.wqlock = IF ctl.arrived = 0 /\ ctl.aio_pending = 1 THEN 0 ELSE @])

\* a registered device with block 0 on the slowest tier, never read or read often
SchedInit ==
    /\ \E hits \in {0, MaxHits} :
           \E W \in {HeatWorld(hits, hits, 0, 0)} : disk = W.disk /\ mem = W.mem
    /\ now = 0
    /\ up = TRUE
    /\ txn = IdleTxn
    /\ crashes = 0
    /\ grown = 0
    /\ faults = 0
    /\ hist = NoHist
    /\ ctl = StartCtl

NextSched ==
    \/ TimerExpired
    \/ MigratorWait
    \/ MigratorDispatch
    \/ \E T \in Gatekeepers : GateDown(T)
    \/ \E T \in Gatekeepers : GateDrain(T)
    \/ MigratorDirect
    \/ MigratorDirectDone
    \/ WalkerBlock
    \/ WalkerYield
    \/ WalkerEnd
    \/ \E T \in Gatekeepers : GateCall(T)
    \/ ResizeBody
    \/ ClearBody
    \/ \E b \in {0}, t \in Tiers : DirectRequest(b, t)
    \/ DirectRequestStore
    \/ FgArrive
    \/ FgSubmit
    \/ FgComplete

SpecSched ==
    SchedInit /\ [][NextSched]_vars

\* the migrator thread, the timer, callers of btier_clear_statistics and foreground
\* requests
NextLive ==
    \/ TimerExpired
    \/ MigratorWait
    \/ MigratorDispatch
    \/ \E T \in {"migrator", "clear"} : GateDown(T)
    \/ \E T \in {"migrator", "clear"} : GateDrain(T)
    \/ WalkerBlock
    \/ WalkerYield
    \/ WalkerEnd
    \/ GateCall("clear")
    \/ ClearBody
    \/ FgArrive
    \/ FgSubmit
    \/ FgComplete

\* the head of walk_blocklist's loop as the synchronisation state shows it: the walker
\* leaves the loop, or has worked on a block and is about to look at wqlock
WalkerBlockSeen ==
    /\ ctl.pc.migrator = "body"
    /\ ctl.job = "walk"
    /\ ctl' \in {[ctl EXCEPT !.pc.migrator = "end"],
                 [ctl EXCEPT !.checked = FALSE, !.pc.migrator = "yield"]}

\* the steps of the migrator thread outside the loop's head, of a caller inside
\* btier_clear_statistics, and of a request that has arrived
MigratorStep ==
    \/ MigratorWait
    \/ MigratorDispatch
    \/ GateDown("migrator")
    \/ GateDrain("migrator")
    \/ WalkerYield
    \/ WalkerEnd

ClearStep ==
    GateDown("clear") \/ GateDrain("clear") \/ ClearBody

FgStep ==
    FgSubmit \/ FgComplete

\* the scheduling the kernel gives these threads: an armed timer expires, and a thread
\* that can go on again and again does go on, so a waiter for the write side of qlock
\* gets it and a request that has arrived is submitted and completes; calls and
\* requests arrive or do not
LiveFairness ==
    /\ WF_vars(TimerExpired)
    /\ SF_vars(MigratorStep)
    /\ WF_ctl(WalkerBlockSeen)
    /\ SF_vars(ClearStep)
    /\ SF_vars(FgStep)

SpecLive ==
    SchedInit /\ [][NextLive]_vars /\ LiveFairness

(* ------------------------------------------------------------------ *)
(* The threads of a device with do_migrate_direct taken write by write  *)
(* ------------------------------------------------------------------ *)
\* do_migrate_direct from btier_lock's return to the slot reservation of copyblock
MigratorDirectBegin ==
    /\ ctl.pc.migrator = "body"
    /\ ctl.job = "direct"
    /\ txn.pc = "idle"
    /\ mem.inerror = 0
    /\ ctl.blocknr < Len(mem.blocklist)
    /\ TxnBegin(ctl.blocknr, ctl.newdevice)
    /\ ctl' = [ctl EXCEPT !.pc.migrator = "copy"]
    /\ UNCHANGED <<now, up, crashes, grown, faults, hist>>

\* copyblock's data copy and writes, and the caller's follow-up, one at a time
MigratorCopyStep ==
    /\ ctl.pc.migrator = "copy"
    /\ \/ MoveBlock
       \/ JournalWrite
       \/ Commit
       \/ JournalClean
       \/ Finish

\* do_migrate_direct: btier_unlock
MigratorDirectUnlock ==
    /\ ctl.pc.migrator = "copy"
    /\ txn.pc = "idle"
    /\ CtlOnly(btier_unlock([ctl EXCEPT
                   !.timer = IF migration_disabled(World) = 0 THEN FALSE ELSE @,
                   !.nexe = @ + 1,
                   !.pc.migrator = "served"]))

NextOverlap ==
    \/ TimerExpired
    \/ MigratorWait
    \/ MigratorDispatch
    \/ \E T \in Gatekeepers : GateDown(T)
    \/ \E T \in Gatekeepers : GateDrain(T)
    \/ MigratorDirectBegin
    \/ MigratorCopyStep
    \/ MigratorDirectUnlock
    \/ MigratorDirectDone
    \/ WalkerBlock
    \/ WalkerYield
    \/ WalkerEnd
    \/ \E T \in Gatekeepers : GateCall(T)
    \/ ResizeBody
    \/ ClearBody
    \/ \E b \in {0}, t \in Tiers : DirectRequest(b, t)
    \/ DirectRequestStore
    \/ FgArrive
    \/ FgSubmit
    \/ FgComplete

SpecOverlap ==
    SchedInit /\ [][NextOverlap]_vars

(* ------------------------------------------------------------------ *)
(* allocate_dev called by two requests at a time                        *)
(* ------------------------------------------------------------------ *)
Callers ==
    {"first", "second"}

\* an allocate_dev whose part under dev_alloc_lock picks the slot and leaves the bitlist
\* byte to mark_offset_as_used
allocate_reserve_unmarked(W, binfo, device) ==
    LET backdev == W.mem.backdev[device]
        idx == allocate_scan(backdev, (backdev.free_offset \div PAGE_SIZE) * PAGE_SIZE)
        offset == (idx * BLKSIZE) + backdev.startofdata
    IN  IF idx < 0
        THEN [w |-> W, binfo |-> binfo]
        ELSE IF offset + BLKSIZE > backdev.endofdata
        THEN [w |-> W, binfo |-> [binfo EXCEPT !.offset = offset]]
        ELSE [w |-> [W EXCEPT !.mem.backdev[device].free_offset = idx],
              binfo |-> [binfo EXCEPT !.offset = offset, !.device = device + 1]]

\* allocate_dev between spin_lock and spin_unlock (lines 274-296) for a binfo without a
\* slot: [w, binfo]; binfo.device is set when a slot was taken
allocate_reserve(W, binfo, device) ==
    LET backdev == W.mem.backdev[device]
        idx == allocate_scan(backdev, (backdev.free_offset \div PAGE_SIZE) * PAGE_SIZE)
        offset == (idx * BLKSIZE) + backdev.startofdata
    IN  IF idx < 0
        THEN [w |-> W, binfo |-> binfo]
        ELSE IF offset + BLKSIZE > backdev.endofdata
        THEN [w |-> W, binfo |-> [binfo EXCEPT !.offset = offset]]
        ELSE [w |-> [W EXCEPT !.mem.backdev[device].free_offset = idx,
                              !.mem.backdev[device].bitlist = SetAt(@, idx, ALLOCATED)],
              binfo |-> [binfo EXCEPT !.offset = offset, !.device = device + 1]]

\* a request for block b, which has no slot, calls allocate_dev for AllocTier and runs
\* it to spin_unlock
AllocReserve(T, b) ==
    /\ up
    /\ txn.pc = "idle"
    /\ mem.inerror = 0
    /\ ctl.alloc[T].pc = "idle"
    /\ b \in 0 .. (Len(mem.blocklist) - 1)
    /\ get_blockinfo(World, b).device = 0
    /\ \A U \in Callers : ctl.alloc[U].pc # "idle" => ctl.alloc[U].blocknr # b
    /\ \E a \in {allocate_reserve(World, ZeroEntry, AllocTier)} :
          /\ SetWorld(a.w)
          /\ ctl' = [ctl EXCEPT !.alloc[T] =
                        [pc |-> IF a.binfo.device # 0 THEN "reserved" ELSE "returned",
                         blocknr |-> b, binfo |-> a.binfo, ret |-> 0]]
    /\ UNCHANGED <<now, up, txn, crashes, grown, faults, hist>>

\* allocate_dev: mark_offset_as_used and the return (lines 299-303)
AllocMark(T) ==
    /\ ctl.alloc[T].pc = "reserved"
    /\ \E binfo \in {ctl.alloc[T].binfo} :
          \E relative_offset \in {binfo.offset - mem.backdev[binfo.device - 1].startofdata} :
              /\ SetWorld(mark_offset_as_used(World, binfo.device - 1, relative_offset))
              /\ ctl' = [ctl EXCEPT
                            !.alloc[T].pc = "returned",
                            !.alloc[T].ret =
                                mark_offset_as_used_ret(World, binfo.device - 1,
                                                        relative_offset)]
    /\ UNCHANGED <<now, up, txn, crashes, grown, faults, hist>>

\* the request commits the entry allocate_dev filled in, if it got a slot
AllocCommit(T) ==
    /\ ctl.alloc[T].pc = "returned"
    /\ IF ctl.alloc[T].binfo.device # 0
       THEN \E r \in {write_blocklist(World, ctl.alloc[T].blocknr, ctl.alloc[T].binfo,
                                      WA, FALSE)} : SetWorld(r.w)
       ELSE UNCHANGED <<disk, mem>>
    /\ ctl' = [ctl EXCEPT !.alloc[T] = IdleCtl.alloc[T]]
    /\ UNCHANGED <<now, up, txn, crashes, grown, faults, hist>>

\* a direct migration, made between btier_lock and btier_unlock with no request in
\* flight
QuietDirectStep ==
    /\ \A T \in Callers : ctl.alloc[T].pc = "idle"
    /\ DirectStep

NextPair ==
    \/ \E T \in Callers, b \in 0 .. (FormatBlocks - 1) : AllocReserve(T, b)
    \/ \E T \in Callers : AllocMark(T)
    \/ \E T \in Callers : AllocCommit(T)
    \/ QuietDirectStep

SpecPair ==
    AllocInit /\ [][NextPair]_vars

(* ------------------------------------------------------------------ *)
(* The walker on a device whose policy is switched and whose stores fail *)
(* ------------------------------------------------------------------ *)
\* the migration policy is switched off through the device's attributes
PolicyDisable ==
    /\ migration_disabled(World) = 0
    /\ CtlWorld([World EXCEPT !.mem.backdev[0].devmagic.dtapolicy.migration_disabled = 1],
                ctl)

\* the migration policy is switched on again
PolicyEnable ==
    /\ migration_disabled(World) # 0
    /\ CtlWorld([World EXCEPT !.mem.backdev[0].devmagic.dtapolicy.migration_disabled = 0],
                ctl)

\* resize_tier from btier_lock's return to btier_unlock, the store behind tier t
\* answering until the tiers are resized and with I/O errors from
\* register_new_device_size on (lines 2373-2376)
ResizeBodyFault(t) ==
    /\ ctl.pc.resize = "body"
    /\ faults < MaxFaults
    /\ ~disk.failing[t]
    /\ \E R \in {rt_loop([w |-> World, res |-> 1, found |-> 0, newdevsize |-> 0], 0)} :
           /\ R.found # 0
           /\ R.res = 0
           /\ \E W \in {register_new_device_size([R.w EXCEPT !.disk.failing[t] = TRUE],
                                                  R.newdevsize)} :
                  SetWorld(W)
    /\ faults' = faults + 1
    /\ ctl' = btier_unlock([ctl EXCEPT !.pc.resize = "idle"])
    /\ UNCHANGED <<now, up, txn, crashes, grown, hist>>

NextQuiet ==
    \/ TimerExpired
    \/ MigratorWait
    \/ MigratorDispatch
    \/ \E T \in {"migrator", "resize"} : GateDown(T)
    \/ \E T \in {"migrator", "resize"} : GateDrain(T)
    \/ WalkerBlock
    \/ WalkerYield
    \/ WalkerEnd
    \/ GateCall("resize")
    \/ ResizeBody
    \/ \E t \in Tiers : ResizeBodyFault(t)
    \/ FgArrive
    \/ FgSubmit
    \/ FgComplete
    \/ PolicyDisable
    \/ PolicyEnable
    \/ \E t \in Tiers : GrowStore(t)

\* a registered device with block 0 on the slowest tier, read often
QuietInit ==
    /\ \E W \in {HeatWorld(MaxHits, MaxHits, 0, 0)} : disk = W.disk /\ mem = W.mem
    /\ now = 0
    /\ up = TRUE
    /\ txn = IdleTxn
    /\ crashes = 0
    /\ grown = 0
    /\ faults = 0
    /\ hist = NoHist
    /\ ctl = StartCtl

SpecQuiet ==
    QuietInit /\ [][NextQuiet]_vars

(* ------------------------------------------------------------------ *)
(* Calls made on a device whose stores fail                             *)
(* ------------------------------------------------------------------ *)
\* walk_blocklist between btier_lock and btier_unlock, foreground I/O absent
RECURSIVE walk_blocklist(_, _)
walk_blocklist(W, curblock) ==
    IF \/ curblock >= (W.mem.size \div BLKSIZE)
       \/ curblock >= Len(W.mem.blocklist)
       \/ migration_disabled(W) # 0
       \/ W.mem.inerror # 0
    THEN W
    ELSE walk_blocklist(walk_block(W, curblock), curblock + 1)

\* a pass of the walker
WalkPass ==
    /\ up
    /\ txn.pc = "idle"
    /\ \E W \in {walk_blocklist(World, 0)} : SetWorld(W)
    /\ UNCHANGED <<now, up, txn, crashes, grown, faults, hist, ctl>>

\* do_migrate_direct on a device in error
DirectInError(b, newdevice) ==
    /\ up
    /\ txn.pc = "idle"
    /\ mem.inerror # 0
    /\ \E W \in {do_migrate_direct(World, b, newdevice)} : SetWorld(W)
    /\ UNCHANGED <<now, up, txn, crashes, grown, faults, hist, ctl>>

\* btier_clear_statistics, under btier_lock
ClearStatistics ==
    /\ up
    /\ txn.pc = "idle"
    /\ \E W \in {btier_clear_statistics(World)} : SetWorld(W)
    /\ UNCHANGED <<now, up, txn, crashes, grown, faults, hist, ctl>>

\* the store behind tier t answers again after the device has gone into error
Recover(t) ==
    /\ up
    /\ txn.pc = "idle"
    /\ mem.inerror # 0
    /\ disk.failing[t]
    /\ disk' = [disk EXCEPT !.failing[t] = FALSE]
    /\ UNCHANGED <<mem, now, up, txn, crashes, grown, faults, hist, ctl>>

NextFault ==
    \/ Register
    \/ \E b \in Blocks, t \in Tiers : ForegroundAllocate(b, t)
    \/ DirectStep
    \/ \E t \in Tiers : Fault(t)
    \/ \E t \in Tiers : Recover(t)
    \/ \E t \in Tiers : GrowStore(t)
    \/ Resize
    \/ WalkPass
    \/ \E b \in Blocks, t \in Tiers : DirectInError(b, t)
    \/ ClearStatistics

SpecFault ==
    Init /\ [][NextFault]_vars

(* ------------------------------------------------------------------ *)
(* Attach of stores whose blocklist is damaged                          *)
(* ------------------------------------------------------------------ *)
\* entries a damaged blocklist may hold: a tier that is not attached, and offsets
\* before the data region, inside it, in the lists behind it and past the store
DamagedEntries ==
    {Entry(dv, off, 0, 0, 0) :
        dv \in 1 .. (NumTiers + 1),
        off \in {0, TIER_HEADERSIZE, FormatSize[0] - (2 * BLKSIZE), FormatSize[0]}}

\* while the device is down the entry of block b on the store of tier 0 is overwritten
Damage(b, e) ==
    /\ ~up
    /\ disk' = [disk EXCEPT !.cell[0][disk.hdr[0].startofblocklist + (b * EntrySize)] = e]
    /\ UNCHANGED <<mem, now, up, txn, crashes, grown, faults, hist, ctl>>

NextDamage ==
    \/ Register
    \/ Deregister
    \/ Crash
    \/ \E b \in Blocks, t \in Tiers : ForegroundAllocate(b, t)
    \/ \E b \in 0 .. (WorkBlocks - 1), e \in DamagedEntries : Damage(b, e)

SpecDamage ==
    Init /\ [][NextDamage]_vars

(* ------------------------------------------------------------------ *)
(* Migrations of blocks that have been read and written: the walker,    *)
(* direct migration and resize on one device                            *)
(* ------------------------------------------------------------------ *)
\* a registered device with blocks 0 and 1 on tier 0, block 1 read reads times and
\* written writes times, and extra hits counted on tier 0 for other blocks; the blocks
\* were written at second 0 and the clock has since run to 0 or MaxNow
MixWorld(reads, writes, extra) ==
    Then(tier_register(tier_set_fds([disk |-> FormatDisk, mem |-> ZeroDev, now |-> 0],
                                    [t \in Tiers |-> t])),
         LAMBDA W0 :
             Then(first_write(first_write(W0, 0, 0).w, 1, 0).w,
                  LAMBDA W1 :
                      Then(SetCache(W1, 1, [get_blockinfo(W1, 1) EXCEPT
                                               !.readcount = reads, !.writecount = writes]),
                           LAMBDA W2 :
                               [with_total(W2, 0, reads + extra) EXCEPT
                                   !.mem.backdev[0].devmagic.total_writes = writes,
                                   !.mem.backdev[0].devmagic.average_writes =
                                       btier_div(writes,
                                                 W2.mem.backdev[0].devicesize \div BLKSIZE)])))

MixInit ==
    /\ \E reads \in {0, MaxHits}, writes \in {0, 1}, extra \in {0, 6} :
           \E W \in {MixWorld(reads, writes, extra)} : disk = W.disk /\ mem = W.mem
    /\ now \in {0, MaxNow}
    /\ up = TRUE
    /\ txn = IdleTxn
    /\ crashes = 0
    /\ grown = 0
    /\ faults = 0
    /\ hist = NoHist
    /\ ctl = IdleCtl

NextMix ==
    \/ \E b \in Blocks : WalkBlock(b)
    \/ DirectStep
    \/ \E t \in Tiers : GrowStore(t)
    \/ Resize

SpecMix ==
    MixInit /\ [][NextMix]_vars

(* ------------------------------------------------------------------ *)
(* The same device with every hit of a tier counted on one of its       *)
(* blocks, and statistics resets                                        *)
(* ------------------------------------------------------------------ *)
TotalsInit ==
    /\ \E reads \in {0, MaxHits}, writes \in {0, 1} :
           \E W \in {MixWorld(reads, writes, 0)} : disk = W.disk /\ mem = W.mem
    /\ now \in {0, MaxNow}
    /\ up = TRUE
    /\ txn = IdleTxn
    /\ crashes = 0
    /\ grown = 0
    /\ faults = 0
    /\ hist = NoHist
    /\ ctl = IdleCtl

NextTotals ==
    \/ \E b \in Blocks : WalkBlock(b)
    \/ DirectStep
    \/ \E t \in Tiers : GrowStore(t)
    \/ Resize
    \/ ClearStatistics

SpecTotals ==
    TotalsInit /\ [][NextTotals]_vars

(* ------------------------------------------------------------------ *)
(* Stores attached in any order                                         *)
(* ------------------------------------------------------------------ *)
\* the most stores attached to one device
MaxStores ==
    5

\* n formatted stores, the store attached i-th holding ordinal order[i] in its header,
\* after TIER_INIT and one TIER_SET_FD per store
AttachedWorld(n, order) ==
    [disk |-> [hdr |-> [s \in 0 .. (n - 1) |-> [ZeroMagic EXCEPT !.device = order[s]]],
               cell |-> [s \in 0 .. (n - 1) |-> [p \in Cells |-> ZeroEntry]],
               cap |-> [s \in 0 .. (n - 1) |-> MaxCap],
               failing |-> [s \in 0 .. (n - 1) |-> FALSE]],
     mem |-> [ZeroDev EXCEPT
                 !.attached_devices = n,
                 !.backdev = [i \in 0 .. (n - 1) |-> [ZeroBackdev EXCEPT !.fds = i]]],
     now |-> 0]

\* the attach orders of n stores whose ordinals are a permutation of 0 .. n-1
AttachOrders(n) ==
    {order \in [0 .. (n - 1) -> 0 .. (n - 1)] :
        \A i, j \in 0 .. (n - 1) : order[i] = order[j] => i = j}

OrderInit ==
    /\ \E n \in 1 .. MaxStores :
           \E order \in AttachOrders(n) :
               \E W \in {AttachedWorld(n, order)} : disk = W.disk /\ mem = W.mem
    /\ now = 0
    /\ up = FALSE
    /\ txn = IdleTxn
    /\ crashes = 0
    /\ grown = 0
    /\ faults = 0
    /\ hist = NoHist
    /\ ctl = IdleCtl

\* TIER_REGISTER as far as order_devices' return
OrderDevices ==
    /\ ~up
    /\ hist.pc = "none"
    /\ \E W \in {order_devices(World)} : SetWorld(W)
    /\ hist' = [NoHist EXCEPT !.pc = "ordered"]
    /\ UNCHANGED <<now, up, txn, crashes, grown, faults, ctl>>

SpecOrder ==
    OrderInit /\ [][OrderDevices]_vars

(* ------------------------------------------------------------------ *)
(* Cached entries written back one at a time                            *)
(* ------------------------------------------------------------------ *)
\* update_blocklist for block b, as walk_blocklist and free_blocklist call it
FlushBlock(b) ==
    /\ up
    /\ txn.pc = "idle"
    /\ b \in Blocks
    /\ \E W \in {update_blocklist(World, b)} : SetWorld(W)
    /\ UNCHANGED <<now, up, txn, crashes, grown, faults, hist, ctl>>

NextFlush ==
    \/ \E b \in Blocks : FlushBlock(b)
    \/ ClearStatistics
    \/ Tick
    \/ \E t \in Tiers : Fault(t)
    \/ \E t \in Tiers : Recover(t)

SpecFlush ==
    HeatInit /\ [][NextFlush]_vars

(* ------------------------------------------------------------------ *)
(* What the claims speak about                                          *)
(* ------------------------------------------------------------------ *)
LiveBlocks ==
    0 .. (Len(mem.blocklist) - 1)

Cached(b) ==
    mem.blocklist[b + 1]

\* the entry of block b in the blocklist on the store of tier 0
PersistedEntry(b) ==
    disk.cell[0][disk.hdr[0].startofblocklist + (b * EntrySize)]

\* the bitlist byte on the store of tier t for the slot at offset
PersistedBit(t, offset) ==
    ByteOf(disk.cell[t][disk.hdr[t].startofbitlist + ((offset - TIER_HEADERSIZE) \div BLKSIZE)])

\* the cached bitlist byte of tier t for the slot at offset
CachedBit(t, offset) ==
    At(mem.backdev[t].bitlist, (offset - mem.backdev[t].startofdata) \div BLKSIZE)

SameSlot(e, f) ==
    e.device = f.device /\ e.offset = f.offset

Quiescent ==
    up /\ txn.pc = "idle"

\* positions of an interrupted copyblock between the reservation and the journal clear
MidMigration ==
    {"reserved", "copied", "journaled", "committed"}

\* the slots of tier t
SlotOffsets(t) ==
    {mem.backdev[t].startofdata + (i * BLKSIZE) : i \in 0 .. (mem.backdev[t].bitlistsize - 1)}

References(t, offset) ==
    {b \in LiveBlocks : Cached(b).device = t + 1 /\ Cached(b).offset = offset}

(* ------------------------------------------------------------------ *)
(* Claims                                                               *)
(* ------------------------------------------------------------------ *)
\* C1: in every reachable state no two entries with tier # 0 reference the same
\* (tier, offset) pair.
C1_AllocationUnique ==
    up => \A b1 \in LiveBlocks, b2 \in LiveBlocks :
              (b1 # b2 /\ Cached(b1).device # 0) => ~SameSlot(Cached(b1), Cached(b2))

\* C2: a copyblock interrupted by a crash between the reservation and the end of the
\* journal clear leaves, after re-attach and recovery, the persisted entry of the block
\* equal to its pre-migration entry.
C2_RecoveryRestoresOldEntry ==
    [][(Register /\ hist.pc \in MidMigration)
          => SameSlot(PersistedEntry(hist.cur)', hist.old)]_vars

\* C3: after a crash within steps 1-5 of a migration and attach-time recovery the
\* target slot reserved in step 1 is free in the bitmap of the target tier.
C3_TargetSlotReleased ==
    [][(Register /\ hist.pc \in MidMigration)
          => PersistedBit(hist.new.device - 1, hist.new.offset)' = UNALLOCATED]_vars

\* C4: in every quiescent state a bitmap slot is allocated if and only if exactly one
\* entry references it, also after a crash between the journal clear and the free of
\* the old slot followed by re-attach (runs with a crash elsewhere are left out).
C4_BitmapMatchesBlockMap ==
    (Quiescent /\ hist.pc \in {"none", "cleaned"})
        => \A t \in Tiers : \A offset \in SlotOffsets(t) :
               (CachedBit(t, offset) = ALLOCATED) <=> (Cardinality(References(t, offset)) = 1)

\* the journal the store of tier t holds
PersistedJournal(t) ==
    disk.hdr[t]

\* C5: every migration transaction, also one in which a write or sync returns an I/O
\* error, ends fully committed (persisted mapping new, journal empty, old slot freed) or
\* fully reverted (persisted mapping old, old slot still allocated).
C5_CommittedOrReverted ==
    [][(up /\ up' /\ txn.pc # "idle" /\ txn'.pc = "idle")
          => \A cur \in {txn.cur}, old \in {txn.oldbuf}, new \in {NewDev(TxnS)} :
                \/ /\ SameSlot(PersistedEntry(cur)', new)
                   /\ PersistedJournal(old.device - 1)'.binfo_journal_old.device = 0
                   /\ PersistedBit(old.device - 1, old.offset)' = UNALLOCATED
                \/ /\ SameSlot(PersistedEntry(cur)', old)
                   /\ PersistedBit(old.device - 1, old.offset)' = ALLOCATED]_vars

\* C6: the persisted mapping of a block switches only while the store of the source
\* tier holds a journal entry for that block naming the old and the new entry, which
\* is cleared only after the switch.
C6_JournalBracketsCommit ==
    [][(up /\ up')
          => \A b \in LiveBlocks : \A old \in {PersistedEntry(b)} :
                 (old.device # 0 /\ ~SameSlot(PersistedEntry(b)', old))
                     => \A j \in {PersistedJournal(old.device - 1)} :
                            /\ j.blocknr_journal = b
                            /\ SameSlot(j.binfo_journal_old, old)
                            /\ SameSlot(j.binfo_journal_new, PersistedEntry(b)')
                            /\ PersistedJournal(old.device - 1)' = j]_vars

\* C7: every entry has a tier in 0..attached_devices and, if its tier is not 0, its block
\* lies inside the data region of that tier and is bitmap-allocated there.
C7_EntryValid ==
    up => \A b \in LiveBlocks :
              LET e == Cached(b)
              IN  /\ e.device \in 0 .. mem.attached_devices
                  /\ e.device # 0
                       => /\ e.offset >= mem.backdev[e.device - 1].startofdata
                          /\ e.offset + BLKSIZE <= mem.backdev[e.device - 1].endofdata + 1
                          /\ CachedBit(e.device - 1, e.offset) = ALLOCATED

\* C8: when a resize has repointed the blocklist, no entry on tier 0 has a block that
\* overlaps the new blocklist region.
C8_BlocklistClearOfData ==
    [][(Resize /\ mem'.backdev[0].startofblocklist # mem.backdev[0].startofblocklist)
          => \A b \in 0 .. (Len(mem'.blocklist) - 1) :
                 LET e == mem'.blocklist[b + 1]
                 IN  e.device = 1
                       => \/ e.offset + BLKSIZE <= mem'.backdev[0].startofblocklist
                          \/ e.offset >= mem'.backdev[0].startofblocklist + mem'.blocklistsize]_vars

\* the slots the journals on the stores name
JournalSlots ==
    UNION {{disk.hdr[t].binfo_journal_old, disk.hdr[t].binfo_journal_new} : t \in Tiers}

\* C9: repair_bitlists, run at attach when some tier is not marked clean, leaves every
\* bitmap slot allocated exactly when some entry, or an entry a journal names, points
\* at it.
C9_RepairRebuildsBitmaps ==
    [][(Register /\ \E t \in Tiers : disk.hdr[t].clean # CLEAN)
          => \A t \in Tiers : \A offset \in SlotOffsets(t)' :
                 (PersistedBit(t, offset)' = ALLOCATED)
                     <=> \/ \E b \in 0 .. (Len(mem'.blocklist) - 1) :
                               /\ PersistedEntry(b)'.device = t + 1
                               /\ PersistedEntry(b)'.offset = offset
                        \/ \E e \in JournalSlots' :
                               e.device = t + 1 /\ e.offset = offset]_vars

\* the hits of the block the walker looked at last, and the two bounds the promotion
\* tests compare them with
WalkHits ==
    hitcount_of(hist.old)

WalkThreshold ==
    hist.avg + btier_div(hist.avg, mem.attached_devices)

WalkMargin ==
    hist.avgnext - btier_div(hist.avgnext, mem.attached_devices)

Promoted ==
    Cached(hist.cur).device = hist.old.device - 1

Stayed ==
    SameSlot(Cached(hist.cur), hist.old)

\* C10: a block whose hits equal average + hysteresis of its tier is not promoted; a
\* block with one hit more is promoted one tier up exactly when its hits also exceed
\* the next faster tier's average minus that tier's hysteresis and that tier has a
\* slot for it.
C10_PromotionStrict ==
    (hist.pc = "walk" /\ hist.old.device > 1)
        => /\ (WalkHits = WalkThreshold) => Stayed
           /\ (WalkHits = WalkThreshold + 1 /\ WalkHits > WalkMargin /\ hist.room) => Promoted
           /\ (WalkHits = WalkThreshold + 1 /\ ~(WalkHits > WalkMargin)) => Stayed

\* C10 as stated: one hit above average + hysteresis is promoted, the faster tier
\* having room
C10_OneHitAbovePromoted ==
    (hist.pc = "walk" /\ hist.old.device > 1 /\ hist.room)
        => /\ (WalkHits = WalkThreshold) => Stayed
           /\ (WalkHits = WalkThreshold + 1) => Promoted

C10_Witness ==
    /\ hist.pc = "walk"
    /\ hist.old.device > 1
    /\ WalkThreshold > 0
    /\ WalkHits = WalkThreshold + 1
    /\ WalkHits > WalkMargin
    /\ Promoted

\* the faster tier's average plus its hysteresis
WalkCeiling ==
    hist.avgnext + btier_div(hist.avgnext, mem.attached_devices)

\* C11: a block is promoted by the walker only if its hits exceed the average plus
\* hysteresis of its own tier and the next faster tier's average minus that tier's
\* hysteresis; a block that clears both bounds is promoted when the faster tier has a
\* slot, also when its hits stay below the faster tier's average plus hysteresis.
C11_PromotionClearsMargin ==
    (hist.pc = "walk" /\ hist.old.device > 1)
        => /\ Promoted => (WalkHits > WalkThreshold /\ WalkHits > WalkMargin)
           /\ (WalkHits > WalkThreshold /\ WalkHits > WalkMargin /\ hist.room) => Promoted

\* C11 as stated: a block is promoted only if its hits exceed the next faster tier's
\* average plus that tier's hysteresis (average 10, hysteresis 5: 14 hits stay)
C11_PromotionNeedsAveragePlus ==
    (hist.pc = "walk" /\ hist.old.device > 1 /\ Promoted) => WalkHits > WalkCeiling

\* two tiers, the faster one with average 10 and hysteresis 5, a block with 14 hits
C11_Witness ==
    /\ hist.pc = "walk"
    /\ hist.old.device > 1
    /\ hist.avgnext = 10
    /\ WalkCeiling - hist.avgnext = 5
    /\ WalkHits = 14
    /\ Promoted

\* the walker has looked at a block that has a slot
WalkVisited ==
    hist.pc \in {"walk", "skip"} /\ hist.pre.device >= 1

WalkAge ==
    hist.at - hist.pre.lastused

\* the demotion conditions as the rule gives them, for the block the walker looked at
DemotionDue ==
    LET policy == mem.backdev[hist.pre.device - 1].devmagic.dtapolicy
        hysteresis == btier_div(hist.preavg, mem.attached_devices)
    IN  \/ WalkAge > policy.max_age
        \/ /\ hitcount_of(hist.pre) < hist.preavg - hysteresis
           /\ WalkAge > policy.hit_collecttime

Demoted ==
    Cached(hist.cur).device = hist.pre.device + 1

\* C12: a block the walker visits on tier t that is older than max_age, or has fewer hits
\* than average - hysteresis of its tier and is older than hit_collect_time, is moved to
\* tier t+1 when that tier exists (and has a slot), also when t+1 is the last tier; the
\* demotion check leaves a block on the last tier where it is.
C12_DemotionRule ==
    WalkVisited
        => /\ (DemotionDue /\ hist.pre.device < mem.attached_devices /\ hist.roombelow)
                  => Demoted
           /\ (hist.pre.device = mem.attached_devices) => SameSlot(hist.old, hist.pre)

\* the totals of the tier the visited block was on, now
WalkTotals ==
    mem.backdev[hist.pre.device - 1].devmagic

RegionSlots(t) ==
    {o \in SlotOffsets(t) : o + BLKSIZE <= mem.backdev[t].endofdata + 1}

FreeSlots(t) ==
    {o \in RegionSlots(t) : CachedBit(t, o) = UNALLOCATED}

LastSlot(t) ==
    CHOOSE o \in RegionSlots(t) : \A p \in RegionSlots(t) : p <= o

\* C14: allocate_dev on a tier whose only free slot is the last slot of the data region
\* returns that slot, also after clear_dev_list has freed it again; on a tier with no
\* free slot it returns none and the entry stays unallocated.
C14_LastSlotAllocated ==
    [][(\E b \in 0 .. (FormatBlocks - 1) : AllocAttempt(b))
          => \A free \in {FreeSlots(AllocTier)}, last \in {LastSlot(AllocTier)} :
                 /\ (free = {last})
                       => /\ hist'.new.device = AllocTier + 1
                          /\ hist'.new.offset = last
                          /\ SameSlot(mem'.blocklist[hist'.cur + 1], hist'.new)
                 /\ (free = {})
                       => /\ hist'.new.device = 0
                          /\ mem'.blocklist[hist'.cur + 1].device = 0]_vars


\* the threads that have returned from btier_lock and not yet called btier_unlock
InGate ==
    {T \in Gatekeepers : ctl.pc[T] \in {"body", "yield", "end"}}

\* C15: the walker pass, a direct migration, statistics clearing and a resize are
\* mutually exclusive between btier_lock and btier_unlock, and btier_lock returns only
\* when no foreground request is in flight
C15_GateExclusive ==
    [][/\ Cardinality(InGate') <= 1
       /\ \A T \in Gatekeepers :
              (ctl.pc[T] = "drain" /\ ctl'.pc[T] = "body")
                  => (ctl.aio_pending = 0 /\ ctl'.aio_pending = 0)]_vars

\* statistics clearing holds the gate, a resize and the migrator wait for it, and a
\* foreground request waits to be submitted
C15_Witness ==
    /\ InGate = {"clear"}
    /\ ctl.pc.resize = "down"
    /\ ctl.pc.migrator = "down"
    /\ ctl.arrived > 0


\* the walker's looks at wqlock: before a pass (data_migrator) and after each block
AtCheck ==
    ctl.pc.migrator = "yield" \/ (ctl.pc.migrator = "woken" /\ ctl.mgdirect.direct # 1)

\* no tier's journal names a migration in progress
JournalsEmpty ==
    \A t \in Tiers : /\ disk.hdr[t].binfo_journal_old.device = 0
                     /\ disk.hdr[t].binfo_journal_new.device = 0

C17_DirectExactlyOnce ==
    [][/\ (\E b \in {0}, t \in Tiers : DirectRequest(b, t))
              => IF ctl.wqlock = NORMAL_IO \/ ctl.mgdirect.direct = 1
                 THEN ctl'.ret = 0 - EAGAIN /\ ctl'.mgdirect = ctl.mgdirect
                 ELSE ctl'.ret = 0
       /\ MigratorDirect
              => [blocknr |-> ctl.blocknr, newdevice |-> ctl.newdevice] = ctl.accepted
       /\ ctl'.nexe <= ctl'.nacc
       /\ (ctl'.mgdirect.direct = 0 /\ ctl'.pc.request = "idle") => ctl'.nexe = ctl'.nacc]_vars


\* the entries and the journals of the device, cached and on the stores
Mappings ==
    [cached |-> mem.blocklist,
     persisted |-> [b \in LiveBlocks |-> PersistedEntry(b)],
     journal |-> [t \in Tiers |->
                     <<disk.hdr[t].blocknr_journal, disk.hdr[t].binfo_journal_old,
                       disk.hdr[t].binfo_journal_new,
                       mem.backdev[t].devmagic.blocknr_journal,
                       mem.backdev[t].devmagic.binfo_journal_old,
                       mem.backdev[t].devmagic.binfo_journal_new>>]]

\* the bitlist bytes of the slot of tier t at offset, cached and on the store
SlotBits(t, offset) ==
    <<CachedBit(t, offset), PersistedBit(t, offset)>>

\* C18: once tiererror has set dev->inerror it stays set while the device is
\* registered, and a walker pass, a direct migration, a resize and a statistics reset
\* made after that change no entry, no bitlist slot and no journal.
C18_FaultTerminal ==
    [][(up /\ mem.inerror # 0)
          => /\ up' => mem'.inerror # 0
             /\ (\/ WalkPass
                 \/ Resize
                 \/ ClearStatistics
                 \/ \E b \in Blocks, t \in Tiers : DirectInError(b, t))
                    => /\ Mappings' = Mappings
                       /\ \A t \in Tiers : \A offset \in SlotOffsets(t) :
                              SlotBits(t, offset)' = SlotBits(t, offset)]_vars


\* entry e names a tier that is not attached, or a slot outside the data region of
\* its tier
Corrupt(e) ==
    /\ e.device # 0
    /\ \/ e.device > mem.attached_devices
       \/ e.offset < mem.backdev[e.device - 1].startofdata
       \/ e.offset + BLKSIZE > mem.backdev[e.device - 1].endofdata + 1

\* C19: an attach that runs repair_bitlists leaves every block whose entry names a tier
\* that is not attached, or an offset outside the data region of its tier, unallocated,
\* and ends without the device in error.
C19_CorruptEntriesReset ==
    [][(Register /\ \E t \in Tiers : disk.hdr[t].clean # CLEAN)
          => /\ \A b \in 0 .. (Len(mem'.blocklist) - 1) : ~Corrupt(Cached(b))'
             /\ mem'.inerror = 0
             /\ mem'.oops = 0]_vars


\* after the step, block b of the old slot old has its new slot allocated and named by
\* its cached and its persisted entry, and the old slot is free
MovedCleanly(b, old) ==
    \A new \in {mem'.blocklist[b + 1]} :
        /\ SameSlot(PersistedEntry(b)', new)
        /\ CachedBit(new.device - 1, new.offset)' = ALLOCATED
        /\ CachedBit(old.device - 1, old.offset)' = UNALLOCATED

\* C20: when do_migrate_direct or migrate_data_if_needed has moved a block, the slot
\* freed is the block's old slot, and the new slot is allocated and is the one the
\* block's cached and persisted entries name.
C20_FreedSlotIsOld ==
    [][/\ (Finish /\ txn.res = 0)
              => \A cur \in {txn.cur}, old \in {txn.oldbuf} : MovedCleanly(cur, old)
       /\ Resize
              => \A b \in LiveBlocks : \A old \in {Cached(b)} :
                     (/\ b < Len(mem'.blocklist)
                      /\ old.device # 0
                      /\ mem'.blocklist[b + 1].device # 0
                      /\ ~SameSlot(old, mem'.blocklist[b + 1]))
                         => MovedCleanly(b, old)]_vars

\* the read and write totals of tier t
TierTotals(t) ==
    <<mem.backdev[t].devmagic.total_reads, mem.backdev[t].devmagic.total_writes>>

\* after the step, the tier of old has lost old's counts and its averages are its new
\* totals over its blocks, the cached entry of block b has zero counts and was last used
\* now, and the totals of the tier the block is on now are what they were
CountersFollow(b, old) ==
    \A new \in {mem'.blocklist[b + 1]},
       before \in {TierTotals(old.device - 1)},
       target \in {[t \in Tiers |-> TierTotals(t)]} :
        \A m \in {mem'.backdev[old.device - 1]} :
            /\ m.devmagic.total_reads = (before[1] - old.readcount) % U64
            /\ m.devmagic.total_writes = (before[2] - old.writecount) % U64
            /\ m.devmagic.average_reads
                   = btier_div(m.devmagic.total_reads, m.devicesize \div BLKSIZE)
            /\ m.devmagic.average_writes
                   = btier_div(m.devmagic.total_writes, m.devicesize \div BLKSIZE)
            /\ new.readcount = 0
            /\ new.writecount = 0
            /\ new.lastused = now
            /\ TierTotals(new.device - 1)' = target[new.device - 1]

\* C21: every successful migration, by the walker, by do_migrate_direct or by
\* resize_tier, takes the block's counts off the totals of the tier it leaves and
\* recomputes that tier's averages, zeroes the block's counts and stamps it with the
\* time, and leaves the totals of the tier it arrives on alone.
C21_CountersFollowMigration ==
    [][/\ (Finish /\ txn.res = 0)
              => \A cur \in {txn.cur}, old \in {txn.oldbuf} : CountersFollow(cur, old)
       /\ (Resize \/ \E c \in Blocks : WalkBlock(c))
              => \A b \in LiveBlocks : \A old \in {Cached(b)} :
                     (/\ b < Len(mem'.blocklist)
                      /\ old.device # 0
                      /\ mem'.blocklist[b + 1].device # 0
                      /\ mem'.blocklist[b + 1].device # old.device)
                         => CountersFollow(b, old)]_vars

\* the journal of tier t, on the store and cached
JournalOf(t) ==
    <<disk.hdr[t].blocknr_journal, disk.hdr[t].binfo_journal_old,
      disk.hdr[t].binfo_journal_new, mem.backdev[t].devmagic.blocknr_journal,
      mem.backdev[t].devmagic.binfo_journal_old,
      mem.backdev[t].devmagic.binfo_journal_new>>

\* C22: when tier_moving_block fails in copyblock, no journal is written, the block's
\* cached entry is again the entry it had before the migration and its persisted entry
\* is the one it had before the migration, the old slot stays allocated, the slot reserved
\* on the target tier stays allocated in the cached bitlist and no block refers to it,
\* and the caller gets the error.
C22_CopyFailureAborts ==
    [][(MoveBlock /\ cb_move(TxnS).res # 0)
          => \A cur \in {txn.cur}, old \in {txn.oldbuf}, reserved \in {Cached(txn.cur)},
                persisted \in {PersistedEntry(txn.cur)},
                journals \in {[t \in Tiers |-> JournalOf(t)]} :
                 /\ \A t \in Tiers : JournalOf(t)' = journals[t]
                 /\ Cached(cur)' = old
                 /\ PersistedEntry(cur)' = persisted
                 /\ CachedBit(old.device - 1, old.offset)' = ALLOCATED
                 /\ CachedBit(reserved.device - 1, reserved.offset)' = ALLOCATED
                 /\ References(reserved.device - 1, reserved.offset)' = {}
                 /\ after_copyblock(cb_move(TxnS)).res = 0 - EIO
                 /\ txn'.pc = "idle"]_vars

\* a direct migration has been given up after the copy failed: the store of a tier
\* fails, no migration is under way, no journal names one, and a slot is allocated that
\* no block refers to
C22_Witness ==
    /\ Quiescent
    /\ JournalsEmpty
    /\ \E t \in Tiers : disk.failing[t]
    /\ \E t \in Tiers : \E offset \in SlotOffsets(t) :
           /\ CachedBit(t, offset) = ALLOCATED
           /\ References(t, offset) = {}

\* what a migration may change of the device: the cached and the persisted entries, the
\* bitlists and free cursors cached and the bitlists on the stores, the journals and the
\* totals
MigrationFrame ==
    [cached |-> mem.blocklist,
     stores |-> disk,
     bits |-> [t \in Tiers |-> <<mem.backdev[t].bitlist, mem.backdev[t].free_offset>>],
     journal |-> [t \in Tiers |-> JournalOf(t)],
     totals |-> [t \in Tiers |-> TierTotals(t)]]

\* MigrationFrame of world W
FrameOf(W) ==
    [cached |-> W.mem.blocklist,
     stores |-> W.disk,
     bits |-> [t \in Tiers |-> <<W.mem.backdev[t].bitlist, W.mem.backdev[t].free_offset>>],
     journal |-> [t \in Tiers |->
                     <<W.disk.hdr[t].blocknr_journal, W.disk.hdr[t].binfo_journal_old,
                       W.disk.hdr[t].binfo_journal_new,
                       W.mem.backdev[t].devmagic.blocknr_journal,
                       W.mem.backdev[t].devmagic.binfo_journal_old,
                       W.mem.backdev[t].devmagic.binfo_journal_new>>],
     totals |-> [t \in Tiers |-> <<W.mem.backdev[t].devmagic.total_reads,
                                   W.mem.backdev[t].devmagic.total_writes>>]]

\* C23: a direct migration that do_migrate_direct turns away because the block is on
\* the target tier, or that copyblock turns away because allocate_dev finds no slot
\* there, and a walker migration that copyblock turns away with ENOSPC, leave the
\* block's entry, every bitlist and free cursor, every journal and every tier's totals
\* as they were.
C23_RejectedIsNoOp ==
    (Quiescent /\ mem.inerror = 0)
        => \A b \in LiveBlocks, t \in Tiers :
               Cached(b).device # 0
                   => /\ (\/ Cached(b).device = t + 1
                          \/ cb_reserve(MoveTxn(World, b, Cached(b), t + 1)).res # 0)
                             => FrameOf(do_migrate_direct(World, b, t)) = MigrationFrame
                      /\ (/\ Cached(b).device # t + 1
                          /\ move_and_follow(World, b, Cached(b), t + 1).res = 0 - ENOSPC)
                             => FrameOf(move_and_follow(World, b, Cached(b), t + 1).w)
                                    = MigrationFrame

\* the walker has been turned away for want of a slot: it has looked at a block that
\* has been read, the block's hits call for the next faster tier, that tier has no slot
\* to give, and the block is where it was with the hits it had
C23_Witness ==
    /\ Quiescent
    /\ hist.pc = "walk"
    /\ \E b \in {hist.cur} :
           /\ Cached(b) = hist.pre
           /\ Cached(b).device >= 2
           /\ Cached(b).readcount > 0
           /\ promote_device(World, Cached(b)) = Cached(b).device - 1
           /\ move_and_follow(World, b, Cached(b), Cached(b).device - 1).res = 0 - ENOSPC

\* the threads between btier_lock's return and btier_unlock, do_migrate_direct taken
\* write by write
Migrating ==
    {T \in Gatekeepers : ctl.pc[T] \in {"body", "copy", "yield", "end"}}

\* C24: whatever the interleaving of the walker, direct migration requests, resize and
\* foreground requests, a migration is begun and the blocklist is rewritten only by the
\* one thread between btier_lock and btier_unlock, with no other migration begun and
\* not finished and every journal empty; the journal of a tier is written only while
\* it is empty; and while a migration of a block is under way no other thread takes a
\* step on the device.
C24_OneMigrationInFlight ==
    [][/\ (MigratorDirectBegin \/ ResizeBody \/ ClearBody
              \/ (WalkerBlock /\ ctl'.pc.migrator = "yield"))
              => /\ Cardinality(Migrating) = 1
                 /\ txn.pc = "idle"
                 /\ JournalsEmpty
       /\ JournalWrite
              => \A t \in {txn.oldbuf.device - 1} :
                     /\ disk.hdr[t].binfo_journal_old.device = 0
                     /\ disk.hdr[t].binfo_journal_new.device = 0
                     /\ Migrating = {"migrator"}
       /\ (txn.pc # "idle" /\ <<disk, mem>>' # <<disk, mem>>)
              => /\ MigratorCopyStep
                 /\ Migrating = {"migrator"}
                 /\ Migrating' = {"migrator"}]_vars

\* a direct migration has written its journal and holds the gate, while a resize has
\* called btier_lock and waits for the write side of qlock
C24_Witness ==
    /\ txn.pc = "journaled"
    /\ ~JournalsEmpty
    /\ Migrating = {"migrator"}
    /\ ctl.pc.resize = "down"

\* in world W the store of tier 0 holds the slot of entry e for block b, the bitlist byte
\* of the slot of entry f on its store is free if f names a slot, and the journal of
\* tier t is empty, cached and on the store
Recovered(W, t, b, e, f) ==
    /\ SameSlot(W.disk.cell[0][W.disk.hdr[0].startofblocklist + (b * EntrySize)], e)
    /\ f.device # 0
           => ByteOf(W.disk.cell[f.device - 1][W.disk.hdr[f.device - 1].startofbitlist
                         + ((f.offset - TIER_HEADERSIZE) \div BLKSIZE)]) = UNALLOCATED
    /\ W.disk.hdr[t].binfo_journal_old.device = 0
    /\ W.disk.hdr[t].binfo_journal_new.device = 0
    /\ W.mem.backdev[t].devmagic.binfo_journal_old.device = 0
    /\ W.mem.backdev[t].devmagic.binfo_journal_new.device = 0

\* C25: recover_journal on a tier with an empty journal changes nothing; run a second
\* time it changes nothing further; and when attach finds a tier not clean with a
\* journal on its store, then after the attach the store holds the journal's old entry
\* for the journalled block, the journal's new slot is free, and the journal is empty.
C25_RecoveryOperation ==
    [][/\ up => \A t \in Tiers :
                    /\ mem.backdev[t].devmagic.binfo_journal_old.device = 0
                           => recover_journal(World, t) = World
                    /\ recover_journal(recover_journal(World, t), t)
                           = recover_journal(World, t)
       /\ Register
              => \A t \in Tiers : \A j \in {disk.hdr[t]} :
                     (j.clean # CLEAN /\ j.binfo_journal_old.device # 0)
                         => \E W \in {[disk |-> disk', mem |-> mem', now |-> now']} :
                                Recovered(W, t, j.blocknr_journal, j.binfo_journal_old,
                                          j.binfo_journal_new)]_vars

\* the structs write_blocklist is handed for block b: the cached entry itself, or a copy
\* of it with one more read counted
PassedEntry(b, iscache) ==
    IF iscache THEN Cached(b) ELSE [Cached(b) EXCEPT !.readcount = (@ + 1) % U64]

\* the entry of block b on the store of tier 0 in world W
PersistedIn(W, b) ==
    W.disk.cell[0][W.disk.hdr[0].startofblocklist + (b * EntrySize)]

\* write_blocklist with WC leaves the stores alone and changes no cached entry but that
\* of the block, and with WA that returns 0 leaves the cached and the persisted entry of
\* the block equal
WcAndWaFrames(b, iscache) ==
    /\ \A r \in {write_blocklist(World, b, PassedEntry(b, iscache), WC, iscache)} :
           /\ r.w.disk = disk
           /\ r.w.mem = [mem EXCEPT !.blocklist[b + 1] = r.w.mem.blocklist[b + 1]]
           /\ r.w.mem.blocklist[b + 1]
                  = [PassedEntry(b, iscache) EXCEPT !.lastused = now]
    /\ \A r \in {write_blocklist(World, b, PassedEntry(b, iscache), WA, iscache)} :
           r.ret = 0 => r.w.mem.blocklist[b + 1] = PersistedIn(r.w, b)

\* write_blocklist with WD writes the entry to the store and nothing else there
WdWritesStore(b, iscache) ==
    \A r \in {write_blocklist(World, b, PassedEntry(b, iscache), WD, iscache)} :
        /\ PersistedIn(r.w, b) = [PassedEntry(b, iscache) EXCEPT !.lastused = now]
        /\ r.w.disk = [disk EXCEPT !.cell[0][disk.hdr[0].startofblocklist + (b * EntrySize)]
                                       = PersistedIn(r.w, b)]

FreeIndexes(t) ==
    {i \in 0 .. (mem.backdev[t].bitlistsize - 1) : At(mem.backdev[t].bitlist, i) # ALLOCATED}

\* every bitlist index of tier t below free_offset is allocated
CursorBehindFree(t) ==
    \A i \in FreeIndexes(t) : mem.backdev[t].free_offset <= i

HeldSlots ==
    {T \in Callers : ctl.alloc[T].pc \in {"reserved", "returned"}
                       /\ ctl.alloc[T].binfo.device # 0}

\* C28: when allocate_dev has returned with a slot, and when clear_dev_list has
\* returned after a migration, the bitlist byte of the slot on the store equals the
\* cached byte; and two allocate_dev calls under way at the same time hold different
\* slots, neither of them the slot of a block.
C28_DurableBitmap ==
    [][/\ \A T \in Callers :
              (ctl.alloc[T].pc # "returned" /\ ctl'.alloc[T].pc = "returned"
                  /\ ctl'.alloc[T].binfo.device # 0)
                  => \A e \in {ctl'.alloc[T].binfo} :
                         /\ CachedBit(e.device - 1, e.offset)' = ALLOCATED
                         /\ PersistedBit(e.device - 1, e.offset)' = ALLOCATED
       /\ (Finish /\ txn.res = 0)
              => \A old \in {txn.oldbuf} :
                     /\ CachedBit(old.device - 1, old.offset)' = UNALLOCATED
                     /\ PersistedBit(old.device - 1, old.offset)' = UNALLOCATED
       /\ \A T \in HeldSlots', U \in HeldSlots' :
              T # U => ~SameSlot(ctl'.alloc[T].binfo, ctl'.alloc[U].binfo)
       /\ \A T \in HeldSlots', b \in LiveBlocks' :
              ~SameSlot(ctl'.alloc[T].binfo, Cached(b)')]_vars

\* two allocate_dev calls on the same tier have both returned with a slot, and neither
\* caller has committed its entry yet
C28_Witness ==
    /\ \A T \in Callers : ctl.alloc[T].pc = "returned"
    /\ ctl.alloc["first"].binfo.device # 0
    /\ ctl.alloc["second"].binfo.device = ctl.alloc["first"].binfo.device

\* C29: in one visit of the walker a block is moved at most once: when
\* migrate_down_ifneeded has moved it one tier down, the migrate_up_ifneeded that
\* follows moves nothing; and the visit leaves the block on the tier it was on, one
\* tier up or one tier down.
C29_OneMovePerVisit ==
    [][\A b \in Blocks :
          (WalkBlock(b) /\ Cached(b).device # 0)
              => \A pre \in {Cached(b)}, d \in {walk_down(World, b)} :
                     \A u \in {IF d.res = 0 THEN migrate_up_ifneeded(d.w, b) ELSE d} :
                         /\ get_blockinfo(d.w, b).device \in {pre.device, pre.device + 1}
                         /\ get_blockinfo(u.w, b).device
                                \in {get_blockinfo(d.w, b).device,
                                     get_blockinfo(d.w, b).device - 1}
                         /\ get_blockinfo(d.w, b).device # pre.device => u.w = d.w
                         /\ mem'.blocklist[b + 1].device = get_blockinfo(u.w, b).device
                         /\ mem'.blocklist[b + 1].device
                                \in {pre.device - 1, pre.device, pre.device + 1}]_vars

\* the walker has moved a block that had been read one tier down for its age, and the
\* visit has left it there
C29_Witness ==
    /\ Quiescent
    /\ hist.pc \in {"walk", "skip"}
    /\ hist.pre.device # 0
    /\ hist.pre.readcount > 0
    /\ hist.old.device = hist.pre.device + 1
    /\ Cached(hist.cur).device = hist.old.device

\* C29 as stated: the walker applies the promote check only to a block it has not
\* demoted in the same visit, walk_blocklist going on to migrate_up_ifneeded exactly
\* when migrate_down_ifneeded has returned 0.
C29_PromoteCheckOnlyIfNotDemoted ==
    [][\A b \in Blocks :
          (WalkBlock(b) /\ Cached(b).device # 0)
              => \A pre \in {Cached(b)}, d \in {walk_down(World, b)} :
                     get_blockinfo(d.w, b).device # pre.device => d.res # 0]_vars

(* ------------------------------------------------------------------ *)
(* How a pass of the walker ends                                        *)
(* ------------------------------------------------------------------ *)
\* the logical blocks walk_blocklist goes over
WalkedBlocks ==
    mem.size \div BLKSIZE

\* the step is walk_blocklist's look at wqlock that finds foreground I/O
PassInterrupted ==
    ctl.pc.migrator = "yield" /\ ctl'.pc.migrator = "end"

\* the step is walk_blocklist's return on a device that is not in error
PassEnds ==
    ctl.pc.migrator = "end" /\ ctl'.pc.migrator = "check" /\ mem.inerror = 0

\* the step is walk_blocklist's entry into its loop
PassStarts ==
    ctl.pc.migrator = "drain" /\ ctl.job = "walk" /\ ctl'.pc.migrator = "body"

\* the timer is armed by the step unless migration is disabled
Rescheduled ==
    migration_disabled(World) = 0 => ctl'.timer

Disabled ==
    migration_disabled(World) # 0

Faulted ==
    mem.inerror # 0

\* the step is the head of walk_blocklist's loop, with or without the work on a block
LoopStep ==
    ctl.pc.migrator = "body" /\ ctl.job = "walk" /\ ctl'.pc.migrator \in {"yield", "end"}

\* the step is walk_blocklist's return
EndStep ==
    ctl.pc.migrator = "end" /\ ctl'.pc.migrator = "check"

\* the step is data_migrator's back-off before foreground I/O
BackoffStep ==
    ctl.pc.migrator = "woken" /\ ctl'.pc.migrator = "check"

\* the step leaves the blocks, the stores and the timer as they are
NothingMoved ==
    disk' = disk /\ mem' = mem

TimerLeft ==
    ctl'.timer = ctl.timer

\* C31 as the specification states it: with migration disabled or the device in error
\* the walker moves no block, and neither walk_blocklist's return nor data_migrator's
\* back-off arms the timer
C31_SuppressedAsStated ==
    [][(Disabled \/ Faulted) =>
           /\ LoopStep => NothingMoved
           /\ EndStep => TimerLeft
           /\ BackoffStep => TimerLeft]_vars

\* C31: with migration disabled or the device in error the walker's loop touches no
\* block and walk_blocklist's return does not arm the timer; data_migrator's back-off
\* leaves the timer alone when migration is disabled, and arms it for 300 ms whenever
\* migration is enabled, whether the device is in error or not
C31_SuppressedScheduling ==
    [][/\ (Disabled \/ Faulted) /\ LoopStep => NothingMoved /\ ctl'.pc.migrator = "end"
       /\ (Disabled \/ Faulted) /\ EndStep => TimerLeft
       /\ Disabled /\ BackoffStep => TimerLeft
       /\ ~Disabled /\ BackoffStep => ctl'.timer /\ ctl'.delay = "retry"]_vars

\* a pass has left its loop before the last block without being interrupted, on a
\* device in error or with migration disabled
C31_Witness ==
    /\ ctl.pc.migrator = "end"
    /\ ctl.interrupted = 0
    /\ ctl.curblock < WalkedBlocks
    /\ Disabled \/ Faulted

(* ------------------------------------------------------------------ *)
(* After a direct migration                                             *)
(* ------------------------------------------------------------------ *)
\* do_migrate_direct has run on the device
DirectHasRun ==
    ctl.nexe > 0

\* C32: once do_migrate_direct has run, migration_disabled is set and the migration
\* timer is not pending, whatever became of the requested move, and from then on
\* data_migrator starts no pass of the walker and no step of walk_blocklist's loop
\* touches a block or a store
C32_DirectSuppressesWalker ==
    /\ [](DirectHasRun => Disabled /\ ~ctl.timer /\ ctl.job # "walk")
    /\ [][DirectHasRun /\ LoopStep => NothingMoved]_vars

\* do_migrate_direct has run for a request that named the tier the block is on, so
\* that nothing was moved, and data_migrator is back at its wait
C32_Witness ==
    /\ DirectHasRun
    /\ ctl.nacc = 1
    /\ ctl.accepted.newdevice = get_blockinfo(World, ctl.accepted.blocknr).device - 1
    /\ ctl.accepted.newdevice = NumTiers - 1
    /\ ctl.pc.migrator \in {"check", "asleep"}
    /\ ctl.mgdirect.direct = 0

(* ------------------------------------------------------------------ *)
(* A tier whose resize is refused or fails                              *)
(* ------------------------------------------------------------------ *)
\* the layout of tier t in memory and in its persisted header
TierLayout(W, t) ==
    LET backdev == W.mem.backdev[t]
        hdr == W.disk.hdr[Store(W, t)]
    IN  <<backdev.devicesize, backdev.startofbitlist, backdev.bitlistsize, backdev.endofdata,
          hdr.devicesize, hdr.startofbitlist, hdr.bitlistsize>>

\* where the blocklist lies on tier 0, in memory and in the persisted header
BlocklistLayout(W) ==
    LET hdr == W.disk.hdr[Store(W, 0)]
    IN  <<W.mem.backdev[0].startofblocklist, W.mem.blocklistsize,
          hdr.startofblocklist, hdr.blocklistsize>>

\* the capacities the store behind a tier may be found to have
FoundCaps ==
    {c \in 0 .. MaxCap : c % BLKSIZE = 0}

\* resize_tier's look at tier t when its store has capacity cap: [w, res, found, newdevsize]
ResizeOf(t, cap) ==
    rt_store([w |-> [World EXCEPT !.disk.cap[Store(World, t)] = cap],
              res |-> 1, found |-> 0, newdevsize |-> 0], t)

\* a tier whose change of capacity resize_tier passes over keeps its layout, and the
\* blocklist stays where it is
RefusedKeepsLayout ==
    Quiescent =>
        \A t \in Tiers, cap \in FoundCaps :
            t < mem.attached_devices =>
                \A r \in {ResizeOf(t, cap)} :
                    r.found = 0 =>
                        /\ TierLayout(r.w, t) = TierLayout(World, t)
                        /\ BlocklistLayout(r.w) = BlocklistLayout(World)

\* a tier whose do_resize_tier fails keeps its layout in memory and in its header
FailedKeepsLayout ==
    Quiescent =>
        \A t \in Tiers, cap \in FoundCaps :
            t < mem.attached_devices =>
                \A r \in {ResizeOf(t, cap)} :
                    r.found # 0 /\ r.res # 0 =>
                        TierLayout(r.w, t) = TierLayout(World, t)

\* C33: a tier whose capacity change is smaller than one bitmap, is a shrink or fails
\* the slack check keeps its layout and leaves the blocklist where it is, and a tier
\* whose do_resize_tier fails at any step keeps its layout in memory and in its header
C33_ResizeAllOrNothing ==
    RefusedKeepsLayout /\ FailedKeepsLayout

(* ------------------------------------------------------------------ *)
(* The delayed flush of an entry                                        *)
(* ------------------------------------------------------------------ *)
\* update_blocklist on block b in the present state, and once more right after
Flushed(b) ==
    update_blocklist(World, b)

FlushedTwice(b) ==
    update_blocklist(Flushed(b), b)

\* the read of block b's persisted entry meets no I/O error
FlushReads(b) ==
    IoOk(World, 0, BlocklistPos(World, b))

\* C34: update_blocklist leaves the stores alone when the persisted entry equals the
\* cached one; after a call that met no I/O error the persisted entry equals the cached
\* entry; a second call right after the first changes nothing; and on a device in error
\* it changes nothing at all
C34_DelayedFlush ==
    Quiescent =>
        \A b \in Blocks :
            /\ same_blockinfo(PersistedIn(World, b), Cached(b)) /\ FlushReads(b)
                   => Flushed(b) = World
            /\ mem.inerror = 0 /\ FlushReads(b)
                   => /\ same_blockinfo(PersistedIn(Flushed(b), b), get_blockinfo(Flushed(b), b))
                      /\ FlushedTwice(b) = Flushed(b)
            /\ mem.inerror # 0 => Flushed(b) = World

\* update_blocklist has written counts that only the cache held to the store, on a
\* device that has since gone into error
C34_Witness ==
    /\ Quiescent
    /\ PersistedIn(World, 0).readcount + PersistedIn(World, 0).writecount > 0
    /\ same_blockinfo(PersistedIn(World, 0), Cached(0))
    /\ Cached(0).lastused > 0
    /\ mem.inerror # 0

(* ------------------------------------------------------------------ *)
(* The clean flag beside the journal                                    *)
(* ------------------------------------------------------------------ *)
\* the journal in the persisted header of tier t holds an entry
JournalHeld(t) ==
    disk.hdr[t].binfo_journal_old.device # 0 \/ disk.hdr[t].binfo_journal_new.device # 0

\* a persisted journal entry is never beside a persisted CLEAN flag
JournalMeansDirty ==
    \A t \in Tiers : JournalHeld(t) => disk.hdr[t].clean # CLEAN

\* every tier of a registered device is persisted as DIRTY
InUseMeansDirty ==
    up => \A t \in Tiers : t < mem.attached_devices => disk.hdr[Store(World, t)].clean = DIRTY

\* C35: in every persisted state a tier whose journal holds an entry is not marked
\* CLEAN, and every tier of a registered device is persisted as DIRTY, so that attach
\* runs recover_journal whenever a journal entry exists
C35_JournalNeverClean ==
    JournalMeansDirty /\ InUseMeansDirty

(* ------------------------------------------------------------------ *)
(* What attach knows when it recovers                                   *)
(* ------------------------------------------------------------------ *)
\* the device as order_devices has it when it reaches its loop over the clean flags,
\* where tier_check calls recover_journal (lines 1458-1491)
AtRecovery ==
    od_swap(od_load(tier_set_fds(World, [t \in Tiers |-> t]), 0), 0)

\* the layout of every tier of W is the one its header gives, and the blocklist and
\* the bitlists are loaded
LayoutKnown(W) ==
    /\ W.mem.size = W.mem.backdev[0].devmagic.total_device_size
    /\ W.mem.backdev[0].startofblocklist = W.mem.backdev[0].devmagic.startofblocklist
    /\ W.mem.blocklistsize = W.mem.backdev[0].devmagic.blocklistsize
    /\ Len(W.mem.blocklist) = W.mem.size \div BLKSIZE
    /\ \A t \in Tiers :
           t < W.mem.attached_devices =>
               /\ W.mem.backdev[t].startofdata = TIER_HEADERSIZE
               /\ W.mem.backdev[t].startofbitlist = W.mem.backdev[t].devmagic.startofbitlist
               /\ W.mem.backdev[t].bitlistsize = W.mem.backdev[t].devmagic.bitlistsize
               /\ Len(W.mem.backdev[t].bitlist) = W.mem.backdev[t].bitlistsize

\* position pos of the store of tier t lies in the blocklist or in the tier's bitlist
InLists(t, pos) ==
    \/ /\ t = 0
       /\ pos >= disk.hdr[0].startofblocklist
       /\ pos < disk.hdr[0].startofblocklist + disk.hdr[0].blocklistsize
    \/ /\ pos >= disk.hdr[t].startofbitlist
       /\ pos < disk.hdr[t].startofbitlist + disk.hdr[t].bitlistsize

\* some store is not marked clean, so that attach recovers and rebuilds
Unclean ==
    \E t \in Tiers : disk.hdr[t].clean # CLEAN

RecoversWithLayout ==
    (~up /\ Unclean) => LayoutKnown(AtRecovery)

AttachWritesInLists ==
    [][(~up /\ up') =>
           \A t \in Tiers, pos \in Cells :
               disk'.cell[t][pos] # disk.cell[t][pos] => InLists(t, pos)]_vars

\* C36: when attach runs recover_journal and repair_bitlists the layout of every tier
\* has been taken from the headers and the blocklist and the bitlists are loaded, and
\* what attach writes to a store outside its header lands in the blocklist or in a bitlist
C36_RecoveryAfterLayout ==
    []RecoversWithLayout /\ AttachWritesInLists

\* C37: whenever the write side of qlock is held, that is, some operation is between
\* btier_lock and btier_unlock, dev->migrate equals MIGRATION_IO; this also when a
\* second operation called btier_lock while the first held the gate and the first has
\* released it since
GateHeld ==
    ctl.qlock # "free"

C37_SignalWhileHeld ==
    GateHeld => ctl.migrate = MIGRATION_IO

\* the migrator thread is past its wait and before its next one
MigratorRuns ==
    ctl.pc.migrator \notin {"check", "asleep"}

\* an expiry of the migration timer is pending, or its wake-up is outstanding, or it is
\* being served
ExpiryKept ==
    (~Disabled /\ ~Faulted) => (ctl.timer \/ ctl.migrate = 1 \/ MigratorRuns)

\* walk_blocklist is at its return after a pass over every block
FullPass ==
    /\ ctl.pc.migrator = "end"
    /\ ctl.interrupted = 0
    /\ ctl.curblock >= WalkedBlocks

\* from some point on no foreground request is waiting or in flight
ForegroundClears ==
    <>[](ctl.wqlock = 0)

\* C38: while migration is enabled and the device is not in error, an expiry of the
\* migration timer is never lost: in every reachable state the timer is pending, or
\* dev->migrate is 1, or the migrator is running; and so, under fair scheduling and if
\* foreground I/O eventually stays away, the walker eventually completes a pass over
\* every block, whatever resize_tier, btier_clear_statistics and do_migrate_direct do
\* to dev->migrate in between
C38_WalkerLiveness ==
    /\ []ExpiryKept
    /\ ([](~Disabled /\ ~Faulted) /\ ForegroundClears) => <>FullPass

\* the sum of the counter named field over the cached entries, from the i-th on, of
\* the blocks mapped to tier t
RECURSIVE HeatSum(_, _, _)
HeatSum(t, i, field) ==
    IF i > Len(mem.blocklist)
    THEN 0
    ELSE (IF mem.blocklist[i].device = t + 1 THEN mem.blocklist[i][field] ELSE 0)
         + HeatSum(t, i + 1, field)

\* the totals of tier t are the sums of the counts of its blocks
TotalsMatch(t) ==
    /\ mem.backdev[t].devmagic.total_reads = HeatSum(t, 1, "readcount")
    /\ mem.backdev[t].devmagic.total_writes = HeatSum(t, 1, "writecount")

\* C39: on a device that is not in error and between the calls of the engine, for
\* every tier total_reads is the sum of readcount and total_writes the sum of
\* writecount over the blocks mapped to that tier, whatever migrations (successful or
\* refused, by the walker, direct or by resize_tier), decays and statistics resets
\* have run; no subtraction from a total therefore wraps below zero
C39_TotalsMatchBlocks ==
    (up /\ txn.pc = "idle" /\ mem.inerror = 0) => \A t \in Tiers : TotalsMatch(t)

\* the ordinal in the header of the store at index i of the tier array
PersistedOrdinal(i) ==
    disk.hdr[mem.backdev[i].fds].device

\* C40: after order_devices on n stores whose header ordinals are a permutation of
\* 0 .. n-1, attached in any order, the store at index i of the tier array is the one
\* whose persisted ordinal is i, for every i
C40_TiersOrdered ==
    hist.pc = "ordered" =>
        \A i \in 0 .. (mem.attached_devices - 1) : PersistedOrdinal(i) = i

====
